---- MODULE Spec2Model ----
(***************************************************************************)
(* A model of awilix-helper: the AST helpers (src/parsers/ast.js), the     *)
(* import resolver (src/parsers/resolvers.js), the indexer (indexFile,     *)
(* buildIndex, watchWorkspace), the diagnostics runner, the completion and *)
(* definition providers and the extension's activate() with its rebuild    *)
(* handlers.                                                               *)
(*                                                                         *)
(* Syntax trees are records shaped like Babel's nodes (type, callee,       *)
(* object, property, arguments, loc ...).  Paths are sequences of          *)
(* segments (see "The disk" below).  JavaScript's null is the             *)
(* string "null" where a string is expected and the record nullNode where  *)
(* a node or an object is expected, and the reference NullRef where an    *)
(* Index is expected.  The text of a line the providers look at is a       *)
(* sequence of one-character strings, and a regular expression is the      *)
(* scan that matches it.                                                   *)
(***************************************************************************)
EXTENDS Integers, Sequences, FiniteSets, TLC

VARIABLES
  args,         \* harness: the arguments of the exported function under call
  ret,          \* harness: [status |-> "pending"] or [status |-> "returned", value |-> v]
  fs,           \* the disk: path -> entry (a file with its text, a directory, nothing)
  config,       \* the awilixHelper.indexIgnore setting (a set of glob patterns)
  ext,          \* extension.js: activate()'s position and its closure variables
  index,        \* extension.js: `let index` (a reference into heap, NullRef for null)
  diagnostics,  \* extension.js: `let diagnostics`, the DiagnosticCollection's entries
  heap,         \* the Index objects alive: reference -> [keys, resolves]
  builds,       \* the buildIndex invocations in flight: reference -> frame
  events        \* how many file-system and configuration events have fired (in
                \* SpecBuild: how many times diagnosticsRunner has been called)

vars == <<args, ret, fs, config, ext, index, diagnostics, heap, builds, events>>

null == "null"
undefined == "undefined"
nullNode == [type |-> "null"]
NullRef == 0

\* a call of an exported function: not made yet, or returned with its value
Pending == [status |-> "pending"]

Returned(value) == [status |-> "returned", value |-> value]

(***************************************************************************)
(* Babel nodes.                                                            *)
(***************************************************************************)
Loc(line, c1, c2) ==
  [start |-> [line |-> line, column |-> c1], end |-> [line |-> line, column |-> c2]]

Identifier(name, loc) == [type |-> "Identifier", name |-> name, loc |-> loc]

StringLiteral(value, loc) == [type |-> "StringLiteral", value |-> value, loc |-> loc]

MemberExpression(object, property, computed) ==
  [type |-> "MemberExpression", object |-> object, property |-> property,
   computed |-> computed]

CallExpression(callee, arguments, loc) ==
  [type |-> "CallExpression", callee |-> callee, arguments |-> arguments, loc |-> loc]

ObjectProperty(key, value, computed) ==
  [type |-> "ObjectProperty", key |-> key, value |-> value, computed |-> computed]

ObjectExpression(properties) == [type |-> "ObjectExpression", properties |-> properties]

ObjectPattern(properties) == [type |-> "ObjectPattern", properties |-> properties]

BlockStatement(body) == [type |-> "BlockStatement", body |-> body]

ClassMethod(kind, key, params, body) ==
  [type |-> "ClassMethod", kind |-> kind, key |-> key, params |-> params,
   body |-> BlockStatement(body)]

ClassDeclaration(id, methods) ==
  [type |-> "ClassDeclaration", id |-> id, body |-> [type |-> "ClassBody", body |-> methods]]

\* FunctionDeclaration, FunctionExpression and ArrowFunctionExpression nodes
Function(type, id, params, body) ==
  [type |-> type, id |-> id, params |-> params, body |-> BlockStatement(body)]

ExpressionStatement(expression) ==
  [type |-> "ExpressionStatement", expression |-> expression]

VariableDeclarator(id, init) == [type |-> "VariableDeclarator", id |-> id, init |-> init]

VariableDeclaration(declarations) ==
  [type |-> "VariableDeclaration", declarations |-> declarations]

\* ImportDefaultSpecifier, ImportSpecifier and ImportNamespaceSpecifier nodes
ImportSpecifier(type, local, imported) ==
  [type |-> type, local |-> local, imported |-> imported]

ImportDeclaration(specifiers, source) ==
  [type |-> "ImportDeclaration", specifiers |-> specifiers, source |-> source]

Program(body) == [type |-> "Program", body |-> body]

\* the children of a node in the order @babel/traverse visits them (VISITOR_KEYS)
Children(node) ==
  CASE node.type \in {"Program", "BlockStatement", "ClassBody"} -> node.body
    [] node.type = "ExpressionStatement" -> <<node.expression>>
    [] node.type = "CallExpression" -> <<node.callee>> \o node.arguments
    [] node.type = "MemberExpression" -> <<node.object, node.property>>
    [] node.type \in {"ObjectExpression", "ObjectPattern"} -> node.properties
    [] node.type = "ObjectProperty" -> <<node.key, node.value>>
    [] node.type = "ClassDeclaration" -> <<node.id, node.body>>
    [] node.type = "ClassMethod" -> <<node.key>> \o node.params \o <<node.body>>
    [] node.type \in {"FunctionDeclaration", "FunctionExpression"} ->
         <<node.id>> \o node.params \o <<node.body>>
    [] node.type = "ArrowFunctionExpression" -> node.params \o <<node.body>>
    [] node.type = "VariableDeclaration" -> node.declarations
    [] node.type = "VariableDeclarator" -> <<node.id, node.init>>
    [] node.type = "ImportDeclaration" -> node.specifiers \o <<node.source>>
    [] OTHER -> <<>>

\* node.name as JavaScript reads it: undefined when the node has no such field
NameOf(node) == IF "name" \in DOMAIN node THEN node.name ELSE undefined

(***************************************************************************)
(* src/parsers/ast.js                                                      *)
(***************************************************************************)
isMemberCall(callee, methodName) ==
  /\ callee.type = "MemberExpression"
  /\ ~callee.computed
  /\ callee.property.type = "Identifier"
  /\ callee.property.name = methodName

isAwilixAsX(callee) ==
  IF callee.type # "MemberExpression" THEN FALSE
  ELSE /\ callee.property.type = "Identifier"
       /\ callee.property.name \in {"asClass", "asFunction", "asValue"}

isCradleAccess(node) ==
  IF node.type # "MemberExpression" THEN FALSE
  ELSE /\ node.object.type = "MemberExpression"
       /\ node.object.property.type = "Identifier"
       /\ node.object.property.name = "cradle"
       /\ node.property.type = "Identifier"

getPropName(key) ==
  IF key.type = "Identifier" THEN key.name
  ELSE IF key.type = "StringLiteral" THEN key.value
  ELSE null

\* a Babel location (1-indexed lines) as a VS Code range (0-indexed lines)
locRange(loc) ==
  [start |-> [line |-> loc.start.line - 1, character |-> loc.start.column],
   end |-> [line |-> loc.end.line - 1, character |-> loc.end.column]]

toRange(node) ==
  IF "loc" \notin DOMAIN node \/ node.loc = nullNode THEN nullNode ELSE locRange(node.loc)

\* the outcome of a call that may throw
Threw == [threw |-> TRUE]

Value(v) == [threw |-> FALSE, value |-> v]

\* the text of a source file: it parses to a program or parseJs throws on it
Text(program) == [type |-> "text", syntax |-> "ok", program |-> program]

SyntaxError == [type |-> "text", syntax |-> "error"]

parseJs(text) == IF text.syntax = "ok" THEN Value(text.program) ELSE Threw

(***************************************************************************)
(* indexer.js: analyzeRegistration                                         *)
(***************************************************************************)
LifetimeNames == {"singleton", "scoped", "transient"}

\* a mutant of asXKind: asFunction taken for a class
asXKindClassForFunction(asX) ==
  IF asX = "asClass" \/ asX = "asFunction" THEN "class" ELSE "value"

asXKind(asX) ==
  IF asX = "asClass" THEN "class" ELSE IF asX = "asFunction" THEN "function" ELSE "value"

\* arguments[0] || null
FirstArgument(arguments) == IF Len(arguments) > 0 THEN arguments[1] ELSE nullNode

\* the while loop of analyzeRegistration, from currentNode with info so far
RECURSIVE analyzeChain(_, _)
analyzeChain(currentNode, info) ==
  IF currentNode.type # "CallExpression" THEN info
  ELSE IF currentNode.callee.type = "MemberExpression" THEN
    LET methodName == NameOf(currentNode.callee.property)
        info1 == IF methodName \in LifetimeNames
                 THEN [info EXCEPT !.lifetime = methodName] ELSE info
    IN IF isAwilixAsX(currentNode.callee)
       THEN [info1 EXCEPT !.kind = asXKind(currentNode.callee.property.name),
                          !.symbolNode = FirstArgument(currentNode.arguments)]
       ELSE analyzeChain(currentNode.callee.object, info1)
  ELSE IF isAwilixAsX(currentNode.callee) THEN
    [info EXCEPT !.kind = asXKind(currentNode.callee.property.name),
                 !.symbolNode = FirstArgument(currentNode.arguments)]
  ELSE info

\* a mutant of directValue: the value stands in for a missing symbol, call or not
directValueAlways(node, info) ==
  IF info.symbolNode = nullNode THEN [info EXCEPT !.symbolNode = node] ELSE info

\* if (info.symbolNode === null && node.type !== 'CallExpression') info.symbolNode = node
directValue(node, info) ==
  IF info.symbolNode = nullNode /\ node.type # "CallExpression"
  THEN [info EXCEPT !.symbolNode = node] ELSE info

analyzeRegistration(node) ==
  directValue(node, analyzeChain(node, [kind |-> "value", lifetime |-> null,
                                        symbolNode |-> nullNode]))

(***************************************************************************)
(* The disk.  A path is a sequence of segments and a segment a sequence of *)
(* its dot-separated parts, so that "/a/foo.js" is <<<<"a">>, <<"foo",     *)
(* "js">>>> and `resolved + '.js'` appends a part to the last segment.    *)
(* fs maps the paths that were created to their entries; a directory also  *)
(* exists when something exists below it.                                  *)
(***************************************************************************)
Dir == [type |-> "dir"]

File(text) == [type |-> "file", text |-> text]

IsPrefix(p, q) == Len(p) < Len(q) /\ SubSeq(q, 1, Len(p)) = p

\* fs.existsSync
existsSync(disk, p) ==
  \/ p \in DOMAIN disk
  \/ \E q \in DOMAIN disk : IsPrefix(p, q)

\* fs.statSync(p).isFile(), for a path that exists
isFile(disk, p) == p \in DOMAIN disk /\ disk[p].type = "file"

\* a disk no file of which has something below it
WellFormedDisk(disk) ==
  \A p \in DOMAIN disk : disk[p].type = "file" => ~\E q \in DOMAIN disk : IsPrefix(p, q)

(***************************************************************************)
(* Node's path module, on absolute paths and on specifiers (sequences of   *)
(* segments too: "./foo" is <<<<".">>, <<"foo">>>>).                       *)
(***************************************************************************)
DotSegment == <<".">>
DotDotSegment == <<"..">>
IndexJs == <<"index", "js">>

\* path.dirname of an absolute path
dirname(p) == IF Len(p) = 0 THEN p ELSE SubSeq(p, 1, Len(p) - 1)

\* path.resolve(dir, rel): rel's segments applied to dir, "." dropped and ".." going up
RECURSIVE pathResolve(_, _)
pathResolve(dir, rel) ==
  IF Len(rel) = 0 THEN dir
  ELSE IF Head(rel) = DotSegment THEN pathResolve(dir, Tail(rel))
  ELSE IF Head(rel) = DotDotSegment THEN pathResolve(dirname(dir), Tail(rel))
  ELSE pathResolve(Append(dir, Head(rel)), Tail(rel))

\* path.join(dir, name) for a single plain segment
pathJoin(dir, segment) == Append(dir, segment)

\* p + '.js'
plusJs(p) ==
  IF Len(p) = 0 THEN <<<<"", "js">>>> ELSE [p EXCEPT ![Len(p)] = Append(p[Len(p)], "js")]

\* modulePath.startsWith('.')
startsWithDot(modulePath) == Len(modulePath) > 0 /\ Head(modulePath[1]) \in {".", ".."}

(***************************************************************************)
(* src/parsers/resolvers.js                                                *)
(***************************************************************************)
NodeModules == <<"node_modules">>

\* a path held in a variable that may also be null (string|null)
PathString(p) == [type |-> "string", value |-> p]

\* require.resolve(modulePath, { paths: [fromDir] }) for a bare package name:
\* node_modules/<name>.js, then node_modules/<name>/index.js, in fromDir and
\* then in each of its parents; nullNode stands for the thrown MODULE_NOT_FOUND
RECURSIVE requireResolve(_, _, _)
requireResolve(disk, modulePath, fromDir) ==
  LET base == pathResolve(pathJoin(fromDir, NodeModules), modulePath)
  IN IF isFile(disk, plusJs(base)) THEN PathString(plusJs(base))
     ELSE IF isFile(disk, pathJoin(base, IndexJs)) THEN PathString(pathJoin(base, IndexJs))
     ELSE IF Len(fromDir) = 0 THEN nullNode
     ELSE requireResolve(disk, modulePath, dirname(fromDir))

resolveModulePath(disk, modulePath, fromFile) ==
  LET fromDir == dirname(fromFile)
      resolved == pathResolve(fromDir, modulePath)
      indexPath == pathJoin(resolved, IndexJs)
  IN IF startsWithDot(modulePath) THEN
       IF existsSync(disk, resolved) /\ isFile(disk, resolved) THEN PathString(resolved)
       ELSE IF existsSync(disk, resolved) /\ existsSync(disk, indexPath)
       THEN PathString(indexPath)
       ELSE IF existsSync(disk, plusJs(resolved)) THEN PathString(plusJs(resolved))
       ELSE nullNode
     ELSE requireResolve(disk, modulePath, fromDir)

(***************************************************************************)
(* JavaScript's Map and arrays, and @babel/traverse.                       *)
(***************************************************************************)
\* map.set(key, value)
MapSet(map, key, value) ==
  [k \in DOMAIN map \cup {key} |-> IF k = key THEN value ELSE map[k]]

\* map.set(e.key, e.value) for each entry in turn
RECURSIVE MapSetAll(_, _)
MapSetAll(map, entries) ==
  IF Len(entries) = 0 THEN map
  ELSE MapSetAll(MapSet(map, Head(entries).key, Head(entries).value), Tail(entries))

\* [].concat(...arrays)
RECURSIVE Concat(_)
Concat(arrays) == IF Len(arrays) = 0 THEN <<>> ELSE Head(arrays) \o Concat(Tail(arrays))

\* traverse(ast, visitors): the nodes of the tree in the order their visitors are entered
RECURSIVE traverse(_)
traverse(node) ==
  <<node>> \o Concat([i \in 1..Len(Children(node)) |-> traverse(Children(node)[i])])

\* 'file://' + path, and fileUri.replace('file://', '')
FileUri(path) == <<"file://", path>>

stripFileScheme(fileUri) == fileUri[2]

(***************************************************************************)
(* src/parsers/resolvers.js: buildImportMap, resolveSymbolOrigin           *)
(***************************************************************************)
\* the ImportDeclaration visitor: the imports.set calls for one specifier
importSpecifierEntry(spec, source) ==
  IF spec.type = "ImportDefaultSpecifier"
  THEN <<[key |-> spec.local.name, value |-> [source |-> source, isDefault |-> TRUE]]>>
  ELSE IF spec.type = "ImportSpecifier"
  THEN <<[key |-> spec.local.name,
          value |-> [source |-> source, isDefault |-> FALSE,
                     imported |-> NameOf(spec.imported)]]>>
  ELSE IF spec.type = "ImportNamespaceSpecifier"
  THEN <<[key |-> spec.local.name, value |-> [source |-> source, isNamespace |-> TRUE]]>>
  ELSE <<>>

\* const { foo, bar: baz } = require('...'): the imports.set call for one property
requirePropertyEntry(prop, source) ==
  IF prop.type = "ObjectProperty" /\ prop.key.type = "Identifier"
  THEN <<[key |-> IF NameOf(prop.value) # undefined THEN prop.value.name ELSE prop.key.name,
          value |-> [source |-> source, isDefault |-> FALSE, imported |-> prop.key.name]]>>
  ELSE <<>>

\* init is require('<string literal>')
isRequireCall(init) ==
  /\ init.type = "CallExpression"
  /\ init.callee.type = "Identifier"
  /\ init.callee.name = "require"
  /\ Len(init.arguments) > 0
  /\ init.arguments[1].type = "StringLiteral"

\* the imports.set calls the visitors of buildImportMap make on one node
importEntries(node) ==
  IF node.type = "ImportDeclaration"
  THEN Concat([i \in 1..Len(node.specifiers) |->
                 importSpecifierEntry(node.specifiers[i], node.source.value)])
  ELSE IF node.type = "VariableDeclarator" /\ isRequireCall(node.init)
  THEN IF node.id.type = "Identifier"
       THEN <<[key |-> node.id.name,
               value |-> [source |-> node.init.arguments[1].value, isDefault |-> TRUE]]>>
       ELSE IF node.id.type = "ObjectPattern"
       THEN Concat([i \in 1..Len(node.id.properties) |->
                      requirePropertyEntry(node.id.properties[i],
                                           node.init.arguments[1].value)])
       ELSE <<>>
  ELSE <<>>

buildImportMap(ast) ==
  LET nodes == traverse(ast)
  IN MapSetAll(<<>>, Concat([i \in 1..Len(nodes) |-> importEntries(nodes[i])]))

\* symbolNode.loc ? { start, end } : null
symbolRange(symbolNode) ==
  IF "loc" \in DOMAIN symbolNode /\ symbolNode.loc # nullNode
  THEN locRange(symbolNode.loc) ELSE nullNode

resolveSymbolOrigin(disk, currentFileUri, symbolNode, importMap) ==
  LET currentFilePath == stripFileScheme(currentFileUri)
      local(exportName, kind) ==
        [fileUri |-> currentFileUri, exportName |-> exportName,
         range |-> symbolRange(symbolNode), kind |-> kind]
  IN IF symbolNode # nullNode /\ symbolNode.type = "Identifier" THEN
       IF symbolNode.name \in DOMAIN importMap THEN
         LET importInfo == importMap[symbolNode.name]
             resolvedPath == resolveModulePath(disk, importInfo.source, currentFilePath)
         IN IF resolvedPath # nullNode
            THEN [fileUri |-> FileUri(resolvedPath.value),
                  exportName |-> IF "imported" \in DOMAIN importInfo
                                    /\ importInfo.imported # undefined
                                 THEN importInfo.imported ELSE null,
                  range |-> nullNode, kind |-> "unknown"]
            ELSE local(symbolNode.name, "unknown")
       ELSE local(symbolNode.name, "unknown")
     ELSE local(null, "value")

(***************************************************************************)
(* indexer.js: indexFile                                                   *)
(***************************************************************************)
\* the result.keys.push of the register visitor for one property of the object literal
registeredKey(disk, fileUri, prop, importMap) ==
  IF prop.type # "ObjectProperty" THEN <<>>
  ELSE IF getPropName(prop.key) \in {null, ""} THEN <<>>
  ELSE LET regInfo == analyzeRegistration(prop.value)
           def == resolveSymbolOrigin(disk, fileUri, regInfo.symbolNode, importMap)
       IN <<[key |-> getPropName(prop.key),
             fileUri |-> def.fileUri,
             exportName |-> def.exportName,
             range |-> IF def.range # nullNode THEN def.range ELSE toRange(prop.key),
             kind |-> regInfo.kind,
             lifetime |-> regInfo.lifetime]>>

\* what the visitors of indexFile push to result.keys on one node
visitKeys(disk, fileUri, node, importMap) ==
  IF /\ node.type = "CallExpression"
     /\ isMemberCall(node.callee, "register")
     /\ Len(node.arguments) > 0
     /\ node.arguments[1].type = "ObjectExpression"
  THEN Concat([i \in 1..Len(node.arguments[1].properties) |->
                 registeredKey(disk, fileUri, node.arguments[1].properties[i], importMap)])
  ELSE <<>>

Reference(fileUri, range, key, type) ==
  [uri |-> fileUri, range |-> range, key |-> key, type |-> type]

\* the constructorInjection usages of a first parameter
injectedParameters(fileUri, params) ==
  IF Len(params) > 0 /\ params[1].type = "ObjectPattern"
  THEN LET props == params[1].properties
           usage(prop) ==
             IF prop.type = "ObjectProperty" /\ prop.key.type = "Identifier"
             THEN <<Reference(fileUri, toRange(prop.key), prop.key.name,
                              "constructorInjection")>>
             ELSE <<>>
       IN Concat([i \in 1..Len(props) |-> usage(props[i])])
  ELSE <<>>

\* what the visitors of indexFile push to result.resolves on one node
visitResolves(fileUri, node) ==
  IF node.type = "CallExpression" THEN
    IF /\ isMemberCall(node.callee, "resolve")
       /\ Len(node.arguments) > 0
       /\ node.arguments[1].type = "StringLiteral"
    THEN <<Reference(fileUri, toRange(node.arguments[1]), node.arguments[1].value,
                     "resolveCall")>>
    ELSE <<>>
  ELSE IF node.type = "MemberExpression" THEN
    IF isCradleAccess(node)
    THEN <<Reference(fileUri, toRange(node.property), node.property.name, "cradleMember")>>
    ELSE <<>>
  ELSE IF node.type = "ClassMethod" THEN
    IF node.kind = "constructor" THEN injectedParameters(fileUri, node.params) ELSE <<>>
  ELSE IF node.type = "FunctionDeclaration" THEN injectedParameters(fileUri, node.params)
  ELSE <<>>

EmptyFileIndex == [keys |-> <<>>, resolves |-> <<>>]

indexFile(disk, fileUri, text) ==
  LET parsed == parseJs(text)
  IN IF parsed.threw THEN EmptyFileIndex
     ELSE LET ast == parsed.value
              importMap == buildImportMap(ast)
              nodes == traverse(ast)
          IN [keys |-> Concat([i \in 1..Len(nodes) |->
                                 visitKeys(disk, fileUri, nodes[i], importMap)]),
              resolves |-> Concat([i \in 1..Len(nodes) |->
                                     visitResolves(fileUri, nodes[i])])]


(***************************************************************************)
(* fast-glob and fs.readFileSync on the disk.                              *)
(***************************************************************************)
\* a workspace folder whose enumeration fails: fg's promise rejects
RejectingDir == [type |-> "dir", glob |-> "rejects"]

\* a file that cannot be read: fs.readFileSync throws on it
Unreadable == [type |-> "EACCES"]

\* the glob '**/<name>/**'
IgnoreGlob(name) == <<"**", name, "**">>

\* indexer.js: defaultIgnore
defaultIgnore ==
  <<IgnoreGlob(<<"node_modules">>), IgnoreGlob(<<"dist">>), IgnoreGlob(<<"out">>),
    IgnoreGlob(<<"", "git">>), IgnoreGlob(<<"data">>), IgnoreGlob(<<"", "vscode">>),
    IgnoreGlob(<<"", "idea">>)>>

\* path.relative(cwd, p) for p below cwd
relativeTo(cwd, p) == SubSeq(p, Len(cwd) + 1, Len(p))

\* '**/<name>/**' matches a relative path one of whose directories is <name>
globMatches(pattern, rel) == \E i \in 1..(Len(rel) - 1) : rel[i] = pattern[2]

\* '**/*.js' matches a relative path whose last segment ends in .js
isJsFile(rel) ==
  Len(rel) > 0 /\ Len(rel[Len(rel)]) > 1 /\ rel[Len(rel)][Len(rel[Len(rel)])] = "js"

\* the order in which a directory walk meets the paths of the model
WalkOrder ==
  << <<<<"w1">>, <<"a", "js">>>>,
     <<<<"w1">>, <<"node_modules">>, <<"m", "js">>>>,
     <<<<"w1">>, <<"notes", "md">>>>,
     <<<<"w1">>, <<"test">>, <<"t", "js">>>>,
     <<<<"w2">>, <<"b", "js">>>> >>

\* await fg('**/*.js', { cwd, absolute: true, ignore, onlyFiles: true, ... })
fg(disk, cwd, ignore) ==
  IF cwd \in DOMAIN disk /\ disk[cwd] = RejectingDir THEN Threw
  ELSE LET matches(p) ==
             /\ isFile(disk, p)
             /\ IsPrefix(cwd, p)
             /\ isJsFile(relativeTo(cwd, p))
             /\ ~\E i \in 1..Len(ignore) : globMatches(ignore[i], relativeTo(cwd, p))
       IN Value(SelectSeq(WalkOrder, matches))

\* fs.readFileSync(file, 'utf-8')
readFileSync(disk, file) ==
  IF ~isFile(disk, file) \/ disk[file].text = Unreadable THEN Threw
  ELSE Value(disk[file].text)

(***************************************************************************)
(* indexer.js: buildIndex                                                  *)
(***************************************************************************)
EmptyIndex == [keys |-> <<>>, resolves |-> <<>>]

\* a mutant of mergeFileIndex: a key that is already in the map keeps its entry
mergeFileIndexKeepingFirst(idx, fileIndex) ==
  LET n == Len(fileIndex.keys)
      reversed == [i \in 1..n |-> [key |-> fileIndex.keys[n + 1 - i].key,
                                   value |-> fileIndex.keys[n + 1 - i]]]
      first == MapSetAll(<<>>, reversed)
  IN [keys |-> [k \in DOMAIN idx.keys \cup DOMAIN first |->
                  IF k \in DOMAIN idx.keys THEN idx.keys[k] ELSE first[k]],
      resolves |-> idx.resolves \o fileIndex.resolves]

\* "Merge keys" and "Merge resolves"
mergeFileIndex(idx, fileIndex) ==
  [keys |-> MapSetAll(idx.keys, [i \in 1..Len(fileIndex.keys) |->
                                   [key |-> fileIndex.keys[i].key,
                                    value |-> fileIndex.keys[i]]]),
   resolves |-> idx.resolves \o fileIndex.resolves]

\* the body of `for (const file of files)`: a file that cannot be read is skipped
indexOneFile(disk, idx, file) ==
  LET text == readFileSync(disk, file)
  IN IF text.threw THEN idx
     ELSE mergeFileIndex(idx, indexFile(disk, FileUri(file), text.value))

\* a mutant of indexFiles: the first file that cannot be read ends the loop
RECURSIVE indexFilesUntilError(_, _, _)
indexFilesUntilError(disk, idx, files) ==
  IF Len(files) = 0 \/ readFileSync(disk, Head(files)).threw THEN idx
  ELSE indexFilesUntilError(disk, indexOneFile(disk, idx, Head(files)), Tail(files))

RECURSIVE indexFiles(_, _, _)
indexFiles(disk, idx, files) ==
  IF Len(files) = 0 THEN idx
  ELSE indexFiles(disk, indexOneFile(disk, idx, Head(files)), Tail(files))

\* the code that follows `await fg(...)` for one folder: a rejected enumeration is caught
indexFolder(disk, idx, found) ==
  IF found.threw THEN idx ELSE indexFiles(disk, idx, found.value)

(***************************************************************************)
(* providers/diagnostics.js: diagnosticsRunner                             *)
(***************************************************************************)
Diagnostic(ref) ==
  [range |-> [start |-> [line |-> ref.range.start.line,
                         character |-> ref.range.start.character],
              end |-> [line |-> ref.range.end.line,
                       character |-> ref.range.end.character]],
   message |-> <<"Awilix: key \"", ref.key, "\" is not registered in the container">>,
   severity |-> "Error",
   source |-> "awilix",
   code |-> "unregistered-key"]

\* a mutant of groupByFile: a diagnostic for every usage, registered or not
RECURSIVE groupByFileUnchecked(_, _, _)
groupByFileUnchecked(byFile, keys, resolves) ==
  IF Len(resolves) = 0 THEN byFile
  ELSE LET ref == Head(resolves)
           fsPath == stripFileScheme(ref.uri)
           arr == IF fsPath \in DOMAIN byFile THEN byFile[fsPath] ELSE <<>>
       IN groupByFileUnchecked(MapSet(byFile, fsPath, Append(arr, Diagnostic(ref))), keys,
                               Tail(resolves))

\* the loop over index.resolves, from the byFile map so far
RECURSIVE groupByFile(_, _, _)
groupByFile(byFile, keys, resolves) ==
  IF Len(resolves) = 0 THEN byFile
  ELSE LET ref == Head(resolves)
           fsPath == stripFileScheme(ref.uri)
           started == IF fsPath \in DOMAIN byFile THEN byFile ELSE MapSet(byFile, fsPath, <<>>)
           pushed == IF ref.key \notin DOMAIN keys
                     THEN MapSet(started, fsPath, Append(started[fsPath], Diagnostic(ref)))
                     ELSE started
       IN groupByFile(pushed, keys, Tail(resolves))

\* a mutant of diagnosticsRunner: the collection is not cleared and the diagnostics of a
\* file are added to those it has
diagnosticsRunnerAppending(idx, collection) ==
  LET byFile == groupByFile(<<>>, idx.keys, idx.resolves)
  IN [fsPath \in DOMAIN collection \cup DOMAIN byFile |->
        (IF fsPath \in DOMAIN collection THEN collection[fsPath] ELSE <<>>)
          \o (IF fsPath \in DOMAIN byFile THEN byFile[fsPath] ELSE <<>>)]

\* collection.clear(), then collection.set(uri, diags) for every file of byFile; a
\* usage of an unregistered key that has no range makes the loop throw before that
diagnosticsRunner(idx, collection) ==
  IF \E i \in 1..Len(idx.resolves) :
       idx.resolves[i].key \notin DOMAIN idx.keys /\ idx.resolves[i].range = nullNode
  THEN collection
  ELSE LET byFile == groupByFile(<<>>, idx.keys, idx.resolves)
           cleared == <<>>
       IN [fsPath \in DOMAIN cleared \cup DOMAIN byFile |->
             IF fsPath \in DOMAIN byFile THEN byFile[fsPath] ELSE cleared[fsPath]]


(***************************************************************************)
(* The source texts and disks of the workspace specifications.             *)
(***************************************************************************)
W1 == <<<<"w1">>>>
W2 == <<<<"w2">>>>
AJs == <<<<"w1">>, <<"a", "js">>>>
BJs == <<<<"w2">>, <<"b", "js">>>>
TestJs == <<<<"w1">>, <<"test">>, <<"t", "js">>>>
ModuleJs == <<<<"w1">>, <<"node_modules">>, <<"m", "js">>>>
NotesMd == <<<<"w1">>, <<"notes", "md">>>>

Member(object, name, line, c1, c2) ==
  MemberExpression(object, Identifier(name, Loc(line, c1, c2)), FALSE)

\* const Service = require('../w2/b');
\* container.register({ logger: lib.asValue(console), svc: lib.asClass(Service).singleton() });
\* container.resolve('logger');
ContainerText ==
  Text(Program(<<
    VariableDeclaration(<<
      VariableDeclarator(
        Identifier("Service", Loc(1, 6, 13)),
        CallExpression(Identifier("require", Loc(1, 16, 23)),
                       <<StringLiteral(<<DotDotSegment, <<"w2">>, <<"b">>>>, Loc(1, 24, 33))>>,
                       Loc(1, 16, 34)))>>),
    ExpressionStatement(
      CallExpression(
        Member(Identifier("container", Loc(2, 0, 9)), "register", 2, 10, 18),
        <<ObjectExpression(<<
            ObjectProperty(
              Identifier("logger", Loc(2, 21, 27)),
              CallExpression(Member(Identifier("lib", Loc(2, 29, 32)), "asValue", 2, 33, 40),
                             <<Identifier("console", Loc(2, 41, 48))>>, Loc(2, 29, 49)),
              FALSE),
            ObjectProperty(
              Identifier("svc", Loc(2, 51, 54)),
              CallExpression(
                Member(CallExpression(
                         Member(Identifier("lib", Loc(2, 56, 59)), "asClass", 2, 60, 67),
                         <<Identifier("Service", Loc(2, 68, 75))>>, Loc(2, 56, 76)),
                       "singleton", 2, 77, 86),
                <<>>, Loc(2, 56, 88)),
              FALSE)>>)>>,
        Loc(2, 0, 91))),
    ExpressionStatement(
      CallExpression(
        Member(Identifier("container", Loc(3, 0, 9)), "resolve", 3, 10, 17),
        <<StringLiteral("logger", Loc(3, 18, 26))>>, Loc(3, 0, 27)))>>))

\* container.register({ svc: lib.asFunction(makeSvc).scoped(), svc: makeSvc() });
DuplicateText ==
  Text(Program(<<
    ExpressionStatement(
      CallExpression(
        Member(Identifier("container", Loc(1, 0, 9)), "register", 1, 10, 18),
        <<ObjectExpression(<<
            ObjectProperty(
              Identifier("svc", Loc(1, 21, 24)),
              CallExpression(
                Member(CallExpression(
                         Member(Identifier("lib", Loc(1, 26, 29)), "asFunction", 1, 30, 40),
                         <<Identifier("makeSvc", Loc(1, 41, 48))>>, Loc(1, 26, 49)),
                       "scoped", 1, 50, 56),
                <<>>, Loc(1, 26, 58)),
              FALSE),
            ObjectProperty(
              Identifier("svc", Loc(1, 60, 63)),
              CallExpression(Identifier("makeSvc", Loc(1, 65, 72)), <<>>, Loc(1, 65, 74)),
              FALSE)>>)>>,
        Loc(1, 0, 77)))>>))

\* class Service { constructor({ logger, db }) {} }
\* container.cradle.svc;
ServiceText ==
  Text(Program(<<
    ClassDeclaration(
      Identifier("Service", Loc(1, 6, 13)),
      <<ClassMethod("constructor", Identifier("constructor", Loc(1, 16, 27)),
                    <<ObjectPattern(<<
                        ObjectProperty(Identifier("logger", Loc(1, 30, 36)),
                                       Identifier("logger", Loc(1, 30, 36)), FALSE),
                        ObjectProperty(Identifier("db", Loc(1, 38, 40)),
                                       Identifier("db", Loc(1, 38, 40)), FALSE)>>)>>,
                    <<>>)>>),
    ExpressionStatement(
      Member(Member(Identifier("container", Loc(2, 0, 9)), "cradle", 2, 10, 16),
             "svc", 2, 17, 20))>>))

\* '**/test/**'
TestGlob == IgnoreGlob(<<"test">>)


(***************************************************************************)
(* buildIndex as it runs: an invocation allocates its Index, then for each *)
(* workspace folder awaits fast-glob (the enumeration reads the disk at    *)
(* some moment of the wait) and indexes the files found when it resumes.   *)
(* When the last folder is done the Index is returned and the code that    *)
(* awaited it runs in the same turn of the event loop.                     *)
(***************************************************************************)
\* vscode.workspace.workspaceFolders: an array of folders, or nullNode for undefined
Folders(items) == [type |-> "array", items |-> items]

\* vscode.languages.createDiagnosticCollection('awilix')
DiagnosticCollection(entries) == [type |-> "DiagnosticCollection", entries |-> entries]

\* `new Map()` and `[]` of a new Index get the smallest reference not in use
newRef(h) ==
  CHOOSE r \in 1..(Cardinality(DOMAIN h) + 1) :
    r \notin DOMAIN h /\ \A q \in 1..(r - 1) : q \in DOMAIN h

\* an Index nothing refers to any more is collected
collect(h, live) == [r \in DOMAIN h \cap live |-> h[r]]

without(map, key) == [k \in DOMAIN map \ {key} |-> map[k]]

\* a mutant of afterBuildIndex: the two handlers publish the Index and leave the
\* diagnostics as they are
afterBuildIndexWithoutDiagnostics(caller, e, r, h, inFlight) ==
  IF caller = "harness"
  THEN /\ ret' = Returned(h[r])
       /\ heap' = collect(h, DOMAIN inFlight \cup {index})
       /\ ext' = e
       /\ UNCHANGED <<index, diagnostics>>
  ELSE /\ index' = r
       /\ diagnostics' = IF caller = "activate"
                         THEN DiagnosticCollection(diagnosticsRunner(h[r], <<>>))
                         ELSE diagnostics
       /\ ext' = IF caller = "activate" THEN [e EXCEPT !.pc = "active"] ELSE e
       /\ heap' = collect(h, DOMAIN inFlight \cup {r})
       /\ UNCHANGED ret

\* the code after `index = await buildIndex(...)`, by call site, with e the extension's
\* variables, r the returned Index and h the heap: activate() creates the collection and
\* runs the initial diagnostics, the two handlers run diagnosticsRunner
afterBuildIndex(caller, e, r, h, inFlight) ==
  IF caller = "harness"
  THEN /\ ret' = Returned(h[r])
       /\ heap' = collect(h, DOMAIN inFlight \cup {index})
       /\ ext' = e
       /\ UNCHANGED <<index, diagnostics>>
  ELSE /\ index' = r
       /\ diagnostics' =
            DiagnosticCollection(
              diagnosticsRunner(h[r], IF caller = "activate" THEN <<>>
                                      ELSE diagnostics.entries))
       /\ ext' = IF caller = "activate" THEN [e EXCEPT !.pc = "active"] ELSE e
       /\ heap' = collect(h, DOMAIN inFlight \cup {r})
       /\ UNCHANGED ret

\* buildIndex(workspaceFolders, ignorePatterns, logger) up to its first await
buildIndex(caller, e, workspaceFolders, ignorePatterns) ==
  LET r == newRef(heap)
      h == MapSet(heap, r, EmptyIndex)
  IN IF workspaceFolders = nullNode \/ Len(workspaceFolders.items) = 0
     THEN /\ afterBuildIndex(caller, e, r, h, builds)
          /\ UNCHANGED builds
     ELSE /\ heap' = h
          /\ builds' = MapSet(builds, r,
               [caller |-> caller, workspaceFolders |-> workspaceFolders.items,
                ignore |-> defaultIgnore \o ignorePatterns, folder |-> 1,
                pc |-> "fg", found |-> Threw])
          /\ ext' = e
          /\ UNCHANGED <<index, diagnostics, ret>>

\* fast-glob settles: the enumeration of the current folder, on the disk as it is now
GlobSettle(r) ==
  /\ r \in DOMAIN builds
  /\ builds[r].pc = "fg"
  /\ builds' = [builds EXCEPT ![r].pc = "found",
                  ![r].found = fg(fs, builds[r].workspaceFolders[builds[r].folder],
                                  builds[r].ignore)]
  /\ UNCHANGED <<args, ret, fs, config, ext, index, diagnostics, heap, events>>

\* a mutant of awaitNextFolder: the Index is published after each folder
awaitNextFolderPublishing(r, idx) ==
  /\ heap' = collect([heap EXCEPT ![r] = idx], DOMAIN builds)
  /\ builds' = [builds EXCEPT ![r].pc = "fg", ![r].folder = @ + 1, ![r].found = Threw]
  /\ index' = IF builds[r].caller = "harness" THEN index ELSE r
  /\ UNCHANGED <<ret, ext, diagnostics>>

\* the loop goes on to the next folder: fg is called and awaited again
awaitNextFolder(r, idx) ==
  /\ heap' = [heap EXCEPT ![r] = idx]
  /\ builds' = [builds EXCEPT ![r].pc = "fg", ![r].folder = @ + 1, ![r].found = Threw]
  /\ UNCHANGED <<ret, ext, index, diagnostics>>

\* the loop is over: `return index`, and the awaiting code runs
returnIndex(r, idx) ==
  /\ builds' = without(builds, r)
  /\ afterBuildIndex(builds[r].caller, ext, r, [heap EXCEPT ![r] = idx], without(builds, r))

\* buildIndex resumes after `await fg(...)`: the files found are read and indexed, which
\* gives the Index idx, and the loop goes on or ends
Resume(r) ==
  /\ r \in DOMAIN builds
  /\ builds[r].pc = "found"
  /\ \E idx \in {indexFolder(fs, heap[r], builds[r].found)} :
       IF builds[r].folder < Len(builds[r].workspaceFolders)
       THEN awaitNextFolder(r, idx)
       ELSE returnIndex(r, idx)
  /\ UNCHANGED <<args, fs, config, events>>


(***************************************************************************)
(* Calls of the exported pure functions: the arguments are drawn from      *)
(* bounded sets, the function is applied once and its result kept in ret.  *)
(***************************************************************************)
\* the extension is not running in the specifications of the pure functions
NoExtension ==
  /\ config = <<>>
  /\ ext = [pc |-> "off"]
  /\ index = NullRef
  /\ diagnostics = nullNode
  /\ heap = <<>>
  /\ builds = <<>>
  /\ events = 0

NoLoc == Loc(1, 0, 0)

(***************************************************************************)
(* analyzeRegistration on registration values: identifiers and literals,   *)
(* and call chains over them up to MaxChain calls deep.                    *)
(***************************************************************************)
MaxChain == 2

AtomNodes == {Identifier("Foo", NoLoc), Identifier("lib", NoLoc), StringLiteral("x", NoLoc)}

MethodNames == {"asClass", "asFunction", "asValue", "singleton", "scoped", "transient",
                "inject"}

ComputedNames == {"asClass", "singleton"}

ArgumentLists == {<<>>, <<Identifier("Foo", NoLoc)>>,
                  <<StringLiteral("x", NoLoc), Identifier("lib", NoLoc)>>}

RECURSIVE ValueNodes(_)
ValueNodes(depth) ==
  IF depth = 0 THEN AtomNodes
  ELSE LET inner == ValueNodes(depth - 1)
       IN inner
          \cup { CallExpression(MemberExpression(o, Identifier(m, NoLoc), FALSE), a, NoLoc) :
                   o \in inner, m \in MethodNames, a \in ArgumentLists }
          \cup { CallExpression(MemberExpression(o, Identifier(m, NoLoc), TRUE), a, NoLoc) :
                   o \in inner, m \in ComputedNames, a \in ArgumentLists }
          \cup { CallExpression(MemberExpression(o, StringLiteral("asClass", NoLoc), TRUE),
                                a, NoLoc) : o \in AtomNodes, a \in ArgumentLists }
          \cup { CallExpression(Identifier("makeLogger", NoLoc), a, NoLoc) :
                   a \in ArgumentLists }

InitAnalyze ==
  /\ args \in { <<n>> : n \in ValueNodes(MaxChain) }
  /\ ret = Pending
  /\ fs = <<>>
  /\ NoExtension

CallAnalyzeRegistration ==
  /\ ret = Pending
  /\ ret' = Returned(analyzeRegistration(args[1]))
  /\ UNCHANGED <<args, fs, config, ext, index, diagnostics, heap, builds, events>>

SpecAnalyze == InitAnalyze /\ [][CallAnalyzeRegistration]_vars

(***************************************************************************)
(* resolveModulePath on the disks made of the paths below.                 *)
(***************************************************************************)
SegA == <<"a">>
SegFoo == <<"foo">>
SegFooJs == <<"foo", "js">>
SegBJs == <<"b", "js">>
SegPkg == <<"pkg">>
SegPkgJs == <<"pkg", "js">>

\* the paths a disk may hold, and those of them that may be (empty) directories
ResolveFiles == { <<SegA, SegFoo>>, <<SegA, SegFooJs>>, <<SegA, SegFoo, IndexJs>>, <<SegFoo>>,
                  <<SegFooJs>>,
                  <<SegA, NodeModules, SegPkgJs>>, <<NodeModules, SegPkg, IndexJs>> }

ResolveDirs == { <<SegA, SegFoo>> }

ResolveDisks ==
  { disk \in UNION { [paths -> {File(nullNode), Dir}] : paths \in SUBSET ResolveFiles } :
      /\ \A p \in DOMAIN disk : disk[p] = Dir => p \in ResolveDirs
      /\ WellFormedDisk(disk) }

ModulePaths == { <<DotSegment, SegFoo>>, <<DotSegment, SegFooJs>>, <<DotDotSegment, SegFoo>>,
                 <<DotDotSegment, SegA, SegFoo>>, <<SegPkg>> }

FromFiles == { <<SegA, SegBJs>>, <<SegBJs>> }

InitResolve ==
  /\ fs \in ResolveDisks
  /\ args \in { <<m, f>> : m \in ModulePaths, f \in FromFiles }
  /\ ret = Pending
  /\ NoExtension

CallResolveModulePath ==
  /\ ret = Pending
  /\ ret' = Returned(resolveModulePath(fs, args[1], args[2]))
  /\ UNCHANGED <<args, fs, config, ext, index, diagnostics, heap, builds, events>>

SpecResolve == InitResolve /\ [][CallResolveModulePath]_vars


(***************************************************************************)
(* buildIndex called on the disks and arguments below (SpecBuild).  The    *)
(* disk does not change while the build runs.                              *)
(***************************************************************************)
BuildTexts == {ContainerText, DuplicateText, ServiceText, SyntaxError, Unreadable}

BuildDisks ==
  { disk \in UNION { [paths -> {File(t) : t \in BuildTexts} \cup {RejectingDir}] :
                       paths \in SUBSET {W1, W2, AJs, TestJs, BJs} } :
      /\ \A p \in DOMAIN disk : (disk[p] = RejectingDir) <=> (p \in {W1, W2})
      /\ NotesMd \notin DOMAIN disk }

BuildFolders == {nullNode, Folders(<<>>), Folders(<<W1>>), Folders(<<W1, W2>>),
                 Folders(<<W2, W1>>)}

BuildIgnores == {<<>>, <<TestGlob>>}

InitBuild ==
  /\ fs \in { disk @@ (ModuleJs :> File(DuplicateText)) @@ (NotesMd :> File(DuplicateText)) :
                disk \in BuildDisks }
  /\ args \in { <<f, i>> : f \in BuildFolders, i \in BuildIgnores }
  /\ ret = Pending
  /\ NoExtension

CallBuildIndex ==
  /\ ret = Pending
  /\ builds = <<>>
  /\ buildIndex("harness", ext, args[1], args[2])
  /\ UNCHANGED <<args, fs, config, events>>

\* diagnostics that an earlier run left in the collection
StaleEntries ==
  (TestJs :> <<Diagnostic(Reference(FileUri(TestJs), locRange(Loc(9, 0, 4)), "gone",
                                    "resolveCall"))>>)

\* how many times diagnosticsRunner is called on the Index returned (counted in `events`)
MaxRuns == 2

\* diagnosticsRunner(index, collection) on the Index returned: the first time on a
\* collection that is empty or holds the diagnostics of an earlier run, then again on the
\* collection as the run before left it
CallDiagnosticsRunner ==
  /\ ret.status = "returned"
  /\ events < MaxRuns
  /\ \E collection \in (IF diagnostics = nullNode THEN {<<>>, StaleEntries}
                        ELSE {diagnostics.entries}) :
       diagnostics' = DiagnosticCollection(diagnosticsRunner(ret.value, collection))
  /\ events' = events + 1
  /\ UNCHANGED <<args, ret, fs, config, ext, index, heap, builds>>

NextBuild ==
  \/ CallBuildIndex
  \/ CallDiagnosticsRunner
  \/ \E r \in DOMAIN builds : GlobSettle(r)
  \/ \E r \in DOMAIN builds : Resume(r)

SpecBuild == InitBuild /\ [][NextBuild]_vars


(***************************************************************************)
(* The extension from activation on (Spec): activate() reads the setting   *)
(* and the workspace folders and awaits the initial build; once it is      *)
(* done the watcher and the configuration listener are registered, and     *)
(* each of their events starts a rebuild.  Files change at any time.       *)
(***************************************************************************)
\* the events of one behaviour: file events and configuration changes together
MaxEvents == 2

\* awilixHelper.indexIgnore
IndexIgnoreValues == {<<>>, <<TestGlob>>}

WorkspaceDisk ==
  (AJs :> File(ContainerText)) @@ (BJs :> File(ServiceText)) @@ (TestJs :> File(DuplicateText))

\* the .js files the user edits, and what is saved to them
EditedFiles == {AJs, BJs}
SavedTexts == {ServiceText, DuplicateText}

writeFile(disk, p, text) == [q \in DOMAIN disk \cup {p} |-> IF q = p THEN File(text) ELSE disk[q]]

unlink(disk, p) == without(disk, p)

Init ==
  /\ args = <<>>
  /\ ret = Pending
  /\ fs = WorkspaceDisk
  /\ config \in IndexIgnoreValues
  /\ ext = [pc |-> "off"]
  /\ index = NullRef
  /\ diagnostics = nullNode
  /\ heap = <<>>
  /\ builds = <<>>
  /\ events = 0

\* activate(context), up to `await buildIndex(...)` or to its early return
activate(workspaceFolders) ==
  /\ ext.pc = "off"
  /\ LET ignorePatterns == config
     IN IF workspaceFolders = nullNode
        THEN /\ ext' = [pc |-> "inactive"]
             /\ UNCHANGED <<index, diagnostics, heap, builds, ret>>
        ELSE buildIndex("activate",
                        [pc |-> "activating", workspaceFolders |-> workspaceFolders,
                         ignorePatterns |-> ignorePatterns],
                        workspaceFolders, ignorePatterns)
  /\ UNCHANGED <<args, fs, config, events>>

\* the callback given to watchWorkspace, which the watcher runs on every event of a .js
\* file once activate() has registered it
onUpdate ==
  IF ext.pc = "active"
  THEN buildIndex("onUpdate", ext, ext.workspaceFolders, ext.ignorePatterns)
  ELSE UNCHANGED <<ext, index, diagnostics, heap, builds, ret>>

\* a .js file is created or changed
FileSaved(p, text) ==
  /\ events < MaxEvents
  /\ events' = events + 1
  /\ fs' = writeFile(fs, p, text)
  /\ onUpdate
  /\ UNCHANGED <<args, config>>

\* a .js file is deleted
FileDeleted(p) ==
  /\ events < MaxEvents
  /\ p \in DOMAIN fs
  /\ events' = events + 1
  /\ fs' = unlink(fs, p)
  /\ onUpdate
  /\ UNCHANGED <<args, config>>

\* the listener of onDidChangeConfiguration, for a change that affects awilixHelper
onDidChangeConfiguration(newIgnorePatterns) ==
  /\ events < MaxEvents
  /\ events' = events + 1
  /\ config' = newIgnorePatterns
  /\ IF ext.pc = "active"
     THEN buildIndex("onConfig", ext, ext.workspaceFolders, newIgnorePatterns)
     ELSE UNCHANGED <<ext, index, diagnostics, heap, builds, ret>>
  /\ UNCHANGED <<args, fs>>

Next ==
  \/ \E workspaceFolders \in {nullNode, Folders(<<W1, W2>>)} : activate(workspaceFolders)
  \/ \E p \in EditedFiles, text \in SavedTexts : FileSaved(p, text)
  \/ \E p \in EditedFiles : FileDeleted(p)
  \/ \E newIgnorePatterns \in IndexIgnoreValues : onDidChangeConfiguration(newIgnorePatterns)
  \/ \E r \in DOMAIN builds : GlobSettle(r)
  \/ \E r \in DOMAIN builds : Resume(r)

Spec == Init /\ [][Next]_vars


(***************************************************************************)
(* Strings and regular expressions.  A string is the sequence of its       *)
(* characters; an index of the code (0-based) is one less than the         *)
(* position in the sequence.                                               *)
(***************************************************************************)
\* \s
Whitespace == {" ", "\t"}

\* \w
WordChars ==
  {"a", "b", "c", "d", "e", "f", "g", "h", "i", "j", "k", "l", "m", "n", "o", "p", "q", "r",
   "s", "t", "u", "v", "w", "x", "y", "z", "A", "B", "C", "D", "E", "F", "G", "H", "I", "J",
   "K", "L", "M", "N", "O", "P", "Q", "R", "S", "T", "U", "V", "W", "X", "Y", "Z", "0", "1",
   "2", "3", "4", "5", "6", "7", "8", "9", "_"}

\* ['"]
Quotes == {"'", "\""}

\* line.substring(from, to) and line.substring(from)
substring(text, from, to) == SubSeq(text, from + 1, to)
substringFrom(text, from) == SubSeq(text, from + 1, Len(text))

\* text.indexOf(c) and text.lastIndexOf(c) for a character c: -1 when it is not there
indexOf(text, c) ==
  IF \E i \in 1..Len(text) : text[i] = c
  THEN (CHOOSE i \in 1..Len(text) : text[i] = c /\ \A j \in 1..(i - 1) : text[j] # c) - 1
  ELSE -1

lastIndexOf(text, c) ==
  IF \E i \in 1..Len(text) : text[i] = c
  THEN (CHOOSE i \in 1..Len(text) : text[i] = c /\ \A j \in (i + 1)..Len(text) : text[j] # c) - 1
  ELSE -1

\* where a greedy run of the characters of a class (\s*, \w+) that starts at position i
\* ends: the position of the first character after it
RECURSIVE skip(_, _, _)
skip(text, i, class) ==
  IF i <= Len(text) /\ text[i] \in class THEN skip(text, i + 1, class) ELSE i

\* the literal is in the text at position i
litAt(text, i, literal) ==
  i + Len(literal) - 1 <= Len(text) /\ SubSeq(text, i, i + Len(literal) - 1) = literal

\* \s*\( from position i: the position after the parenthesis, 0 when there is no match
openParen(text, i) ==
  LET k == skip(text, i, Whitespace)
  IN IF i # 0 /\ k <= Len(text) /\ text[k] = "(" THEN k + 1 ELSE 0

\* \s*\{[^}]*$ from position i
openBraceToEnd(text, i) ==
  /\ i # 0
  /\ LET k == skip(text, i, Whitespace)
     IN /\ k <= Len(text)
        /\ text[k] = "{"
        /\ \A m \in (k + 1)..Len(text) : text[m] # "}"

DotResolve == <<".", "r", "e", "s", "o", "l", "v", "e">>
DotCradleDot == <<".", "c", "r", "a", "d", "l", "e", ".">>
ConstructorWord == <<"c", "o", "n", "s", "t", "r", "u", "c", "t", "o", "r">>
FunctionWord == <<"f", "u", "n", "c", "t", "i", "o", "n">>
DeclarationWords == {<<"c", "o", "n", "s", "t">>, <<"l", "e", "t">>, <<"v", "a", "r">>}

\* \.resolve\s*\(\s*(['"]) at position i: the position of the quote, 0 when no match
resolveQuoteAt(text, i) ==
  IF ~litAt(text, i, DotResolve) THEN 0
  ELSE LET k == skip(text, openParen(text, i + Len(DotResolve)), Whitespace)
       IN IF openParen(text, i + Len(DotResolve)) # 0 /\ k <= Len(text) /\ text[k] \in Quotes
          THEN k ELSE 0

\* text.match(/\.resolve\s*\(\s*(['"])([^'"]*?)$/): the leftmost match, with its groups
resolveMatch(text) ==
  LET matchesAt(i) ==
        /\ resolveQuoteAt(text, i) # 0
        /\ \A m \in (resolveQuoteAt(text, i) + 1)..Len(text) : text[m] \notin Quotes
      starts == { i \in 1..Len(text) : matchesAt(i) }
  IN IF starts = {} THEN nullNode
     ELSE LET i == CHOOSE i \in starts : \A j \in starts : i <= j
              k == resolveQuoteAt(text, i)
          IN [type |-> "match", index |-> i - 1, quote |-> text[k],
              key |-> SubSeq(text, k + 1, Len(text))]

\* /\.cradle\.$/.test(text)
endsWithCradleDot(text) ==
  Len(text) >= Len(DotCradleDot) /\ litAt(text, Len(text) - Len(DotCradleDot) + 1, DotCradleDot)

\* /constructor\s*\(\s*\{[^}]*$/.test(text)
constructorOpen(text) ==
  \E i \in 1..Len(text) :
    /\ litAt(text, i, ConstructorWord)
    /\ openBraceToEnd(text, openParen(text, i + Len(ConstructorWord)))

\* function\s+\w+\s*\( at position i: the position after the parenthesis, or 0
namedFunctionAt(text, i) ==
  IF ~litAt(text, i, FunctionWord) THEN 0
  ELSE LET j == skip(text, i + Len(FunctionWord), Whitespace)
           k == skip(text, j, WordChars)
       IN IF j > i + Len(FunctionWord) /\ k > j THEN openParen(text, k) ELSE 0

\* \s*=\s*(?:function)?\s*\( from position k, the end of the name
assignedFunctionFrom(text, k) ==
  LET e == skip(text, k, Whitespace)
      f == skip(text, e + 1, Whitespace)
  IN IF e > Len(text) \/ text[e] # "=" THEN 0
     ELSE IF litAt(text, f, FunctionWord) THEN openParen(text, f + Len(FunctionWord))
     ELSE openParen(text, f)

\* ^\s*(?:const|let|var)?\s*\w+\s*=\s*(?:function)?\s*\( : the positions after the
\* parenthesis, for the name read with and without a declaration word before it
assignedFunctionAtStart(text) ==
  LET i == skip(text, 1, Whitespace)
      named(j) == IF skip(text, j, WordChars) > j
                  THEN assignedFunctionFrom(text, skip(text, j, WordChars)) ELSE 0
  IN { named(i) } \cup
     { named(skip(text, i + Len(w), Whitespace)) : w \in { w \in DeclarationWords : litAt(text, i, w) } }

\* /(?:function\s+\w+\s*\(|^\s*(?:const|let|var)?\s*\w+\s*=\s*(?:function)?\s*\()\s*\{[^}]*$/
\* .test(text)
functionOpen(text) ==
  \/ \E i \in 1..Len(text) : openBraceToEnd(text, namedFunctionAt(text, i))
  \/ \E k \in assignedFunctionAtStart(text) : openBraceToEnd(text, k)

(***************************************************************************)
(* providers/completion.js: detectAwilixContext                            *)
(***************************************************************************)
\* new vscode.Position(line, character), and doc.lineAt(line).text
Position(line, character) == [line |-> line, character |-> character]

lineAt(doc, line) == doc[line + 1]

\* a mutant of detectAwilixContext: the cradle-dot check comes before the resolve-string
\* check
detectAwilixContextCradleFirst(doc, pos) ==
  LET line == lineAt(doc, pos.line)
      textBefore == substring(line, 0, pos.character)
      textAfter == substringFrom(line, pos.character)
      resolved == resolveMatch(textBefore)
      closingQuote == indexOf(textAfter, resolved.quote)
  IN IF endsWithCradleDot(textBefore) THEN "afterCradleDot"
     ELSE IF resolved # nullNode /\ (closingQuote = -1 \/ closingQuote > 0)
     THEN "inResolveString"
     ELSE IF constructorOpen(textBefore) THEN "inConstructorDestructuring"
     ELSE IF functionOpen(textBefore) THEN "inConstructorDestructuring"
     ELSE null

detectAwilixContext(doc, pos) ==
  LET line == lineAt(doc, pos.line)
      textBefore == substring(line, 0, pos.character)
      textAfter == substringFrom(line, pos.character)
      resolved == resolveMatch(textBefore)
      closingQuote == indexOf(textAfter, resolved.quote)
  IN IF resolved # nullNode /\ (closingQuote = -1 \/ closingQuote > 0) THEN "inResolveString"
     ELSE IF endsWithCradleDot(textBefore) THEN "afterCradleDot"
     ELSE IF constructorOpen(textBefore) THEN "inConstructorDestructuring"
     ELSE IF functionOpen(textBefore) THEN "inConstructorDestructuring"
     ELSE null


(***************************************************************************)
(* providers/completion.js: completionProvider(getIndex)                   *)
(* .provideCompletionItems.  A provider's undefined result is nullNode.    *)
(* The items are a set: the order of index.keys.entries() is not modelled. *)
(***************************************************************************)
\* new vscode.Range(startLine, startCharacter, endLine, endCharacter)
Range(startLine, startCharacter, endLine, endCharacter) ==
  [start |-> Position(startLine, startCharacter), end |-> Position(endLine, endCharacter)]

\* item.range of the items of a resolve string; nullNode when the property is not set
itemRange(doc, pos) ==
  LET line == lineAt(doc, pos.line)
      textBefore == substring(line, 0, pos.character)
      match == resolveMatch(textBefore)
      startPos == lastIndexOf(textBefore, match.quote) + 1
      textAfter == substringFrom(line, pos.character)
      endQuoteIndex == indexOf(textAfter, match.quote)
  IN IF match # nullNode
     THEN Range(pos.line, startPos, pos.line,
                IF endQuoteIndex >= 0 THEN pos.character + endQuoteIndex ELSE pos.character)
     ELSE nullNode

\* the separator of `${meta.kind} <bullet> ${meta.lifetime}` is written " - "
CompletionItem(key, meta, range) ==
  [label |-> key,
   kind |-> "Property",
   detail |-> <<meta.kind>> \o (IF meta.lifetime # null THEN <<" - ", meta.lifetime>> ELSE <<>>),
   documentation |-> stripFileScheme(meta.fileUri),
   sortText |-> key,
   range |-> range]

CompletionItems(items) == [type |-> "CompletionItems", items |-> items]

provideCompletionItems(idx, doc, pos) ==
  LET ctx == detectAwilixContext(doc, pos)
  IN IF ctx = null THEN nullNode
     ELSE CompletionItems({ CompletionItem(key, idx.keys[key],
                                           IF ctx = "inResolveString" THEN itemRange(doc, pos)
                                           ELSE nullNode) :
                            key \in DOMAIN idx.keys })

(***************************************************************************)
(* providers/definition.js: findKeyUnderCursor and                         *)
(* definitionProvider(getIndex).provideDefinition.  The key of a reference *)
(* is a string, as the keys of the Index are.                              *)
(***************************************************************************)
\* the characters of a piece of a line as one string
RECURSIVE join(_)
join(text) == IF Len(text) = 0 THEN "" ELSE Head(text) \o join(Tail(text))

\* doc.getWordRangeAtPosition(pos) with the word pattern \w+: the columns of the word that
\* holds or touches the position, nullNode for undefined
getWordRangeAtPosition(doc, pos) ==
  LET line == lineAt(doc, pos.line)
      c == pos.character
      onWord == c + 1 <= Len(line) /\ line[c + 1] \in WordChars
      afterWord == c >= 1 /\ line[c] \in WordChars
      starts == { a \in 1..(c + 1) : \A m \in a..(IF onWord THEN c + 1 ELSE c) : line[m] \in WordChars }
      first == CHOOSE a \in starts : \A b \in starts : a <= b
  IN IF ~onWord /\ ~afterWord THEN nullNode
     ELSE Range(pos.line, first - 1, pos.line, skip(line, first, WordChars) - 1)

\* doc.getText(range) for a range within one line
getText(doc, range) ==
  substring(lineAt(doc, range.start.line), range.start.character, range.end.character)

\* String.prototype.trim
trim(text) ==
  LET a == skip(text, 1, Whitespace)
      ends == { b \in a..Len(text) : text[b] \notin Whitespace }
  IN IF ends = {} THEN <<>>
     ELSE SubSeq(text, a, CHOOSE b \in ends : \A e \in ends : e <= b)

\* text.split(',').map(p => p.trim()), as the set of its elements
splitTrim(text) ==
  { trim(SubSeq(text, a, b)) :
      <<a, b>> \in { ab \in (1..(Len(text) + 1)) \X (0..Len(text)) :
                       /\ ab[2] >= ab[1] - 1
                       /\ ab[1] = 1 \/ text[ab[1] - 1] = ","
                       /\ ab[2] = Len(text) \/ text[ab[2] + 1] = ","
                       /\ \A m \in ab[1]..ab[2] : text[m] # "," } }

\* \s*\{([^}]+)\} from position i: the group, nullNode when there is no match
bracedGroup(text, i) ==
  IF i = 0 THEN nullNode
  ELSE LET k == skip(text, i, Whitespace)
           closes == { m \in (k + 1)..Len(text) : text[m] = "}" }
           close == CHOOSE m \in closes : \A n \in closes : m <= n
       IN IF k <= Len(text) /\ text[k] = "{" /\ closes # {} /\ close > k + 1
          THEN [type |-> "group", text |-> SubSeq(text, k + 1, close - 1)]
          ELSE nullNode

\* line.match(/\.cradle\.(\w+)/)[1]: the name after the first `.cradle.` that has one
cradleMatch(line) ==
  LET matches == { i \in 1..Len(line) :
                     /\ litAt(line, i, DotCradleDot)
                     /\ skip(line, i + Len(DotCradleDot), WordChars) > i + Len(DotCradleDot) }
      i == CHOOSE m \in matches : \A n \in matches : m <= n
  IN IF matches = {} THEN nullNode
     ELSE [type |-> "group",
           text |-> SubSeq(line, i + Len(DotCradleDot),
                           skip(line, i + Len(DotCradleDot), WordChars) - 1)]

\* line.match(/constructor\s*\(\s*\{([^}]+)\}/)[1]
constructorMatch(line) ==
  LET matches == { i \in 1..Len(line) :
                     /\ litAt(line, i, ConstructorWord)
                     /\ bracedGroup(line, openParen(line, i + Len(ConstructorWord))) # nullNode }
      i == CHOOSE m \in matches : \A n \in matches : m <= n
  IN IF matches = {} THEN nullNode
     ELSE bracedGroup(line, openParen(line, i + Len(ConstructorWord)))

\* ^\s*(?:const|let|var)?\s*\w+\s*=\s* : the position after it, with (word # <<>>) or
\* without a declaration word, 0 when there is no match
assignmentAtStart(line, word) ==
  LET i == skip(line, 1, Whitespace)
      j == IF word = <<>> THEN i ELSE skip(line, i + Len(word), Whitespace)
      k == skip(line, j, WordChars)
      e == skip(line, k, Whitespace)
  IN IF /\ word # <<>> => litAt(line, i, word)
        /\ k > j
        /\ e <= Len(line)
        /\ line[e] = "="
     THEN skip(line, e + 1, Whitespace) ELSE 0

\* line.match(/(?:function\s+\w+\s*\(|^\s*(?:const|let|var)?\s*\w+\s*=\s*)\s*\{([^}]+)\}/)[1]:
\* the leftmost match, and at the start of the line the first alternative that matches
functionMatch(line) ==
  LET declared == { bracedGroup(line, assignmentAtStart(line, w)) : w \in DeclarationWords }
                    \ {nullNode}
      matches == { i \in 1..Len(line) : bracedGroup(line, namedFunctionAt(line, i)) # nullNode }
      i == CHOOSE m \in matches : \A n \in matches : m <= n
  IN IF 1 \in matches THEN bracedGroup(line, namedFunctionAt(line, 1))
     ELSE IF declared # {} THEN CHOOSE g \in declared : TRUE
     ELSE IF bracedGroup(line, assignmentAtStart(line, <<>>)) # nullNode
     THEN bracedGroup(line, assignmentAtStart(line, <<>>))
     ELSE IF matches # {} THEN bracedGroup(line, namedFunctionAt(line, i))
     ELSE nullNode

\* textAfter.match(/^[\w]*/)[0]
leadingWord(text) == SubSeq(text, 1, skip(text, 1, WordChars) - 1)

KeyUnderCursor(key, range) == [type |-> "ref", key |-> key, range |-> range]

\* the checks of findKeyUnderCursor that follow `if (!wordRange) return null`
wordUnderCursor(doc, line, wordRange) ==
  LET word == getText(doc, wordRange)
      isParameterOf(match) == match # nullNode /\ word \in splitTrim(match.text)
  IN IF cradleMatch(line) # nullNode /\ cradleMatch(line).text = word
     THEN KeyUnderCursor(join(word), wordRange)
     ELSE IF isParameterOf(constructorMatch(line)) THEN KeyUnderCursor(join(word), wordRange)
     ELSE IF isParameterOf(functionMatch(line)) THEN KeyUnderCursor(join(word), wordRange)
     ELSE nullNode

findKeyUnderCursor(doc, pos) ==
  LET line == lineAt(doc, pos.line)
      wordRange == getWordRangeAtPosition(doc, pos)
      textBefore == substring(line, 0, pos.character)
      textAfter == substringFrom(line, pos.character)
      resolved == resolveMatch(textBefore)
      endQuoteIndex == indexOf(textAfter, resolved.quote)
      keyAfter == IF endQuoteIndex >= 0 THEN substring(textAfter, 0, endQuoteIndex)
                  ELSE leadingWord(textAfter)
      fullKey == resolved.key \o keyAfter
      keyStartPos == lastIndexOf(textBefore, resolved.quote) + 1
  IN IF resolved # nullNode /\ fullKey # <<>>
     THEN KeyUnderCursor(join(fullKey),
                         Range(pos.line, keyStartPos, pos.line, keyStartPos + Len(fullKey)))
     ELSE IF wordRange = nullNode THEN nullNode
     ELSE wordUnderCursor(doc, line, wordRange)

\* new vscode.Location(uri, rangeOrPosition)
Location(uri, range) == [type |-> "Location", uri |-> uri, range |-> range]

provideDefinition(idx, doc, pos) ==
  LET ref == findKeyUnderCursor(doc, pos)
  IN IF ref = nullNode THEN nullNode
     ELSE IF ref.key \notin DOMAIN idx.keys THEN nullNode
     ELSE LET def == idx.keys[ref.key]
          IN Location(def.fileUri,
                      IF def.range # nullNode
                      THEN Range(def.range.start.line, def.range.start.character,
                                 def.range.end.line, def.range.end.character)
                      ELSE Range(0, 0, 0, 0))

(***************************************************************************)
(* The lines of the documents the providers are asked about, and           *)
(* detectAwilixContext called at every cursor position of one of them      *)
(* (SpecDetect).                                                           *)
(***************************************************************************)
\* container.resolve('use
ResolveUseLine ==
  <<"c", "o", "n", "t", "a", "i", "n", "e", "r", ".", "r", "e", "s", "o", "l", "v", "e",
    "(", "'", "u", "s", "e">>

\* c.resolve('')
ResolveEmptyLine ==
  <<"c", ".", "r", "e", "s", "o", "l", "v", "e", "(", "'", "'", ")">>

\* c.resolve("")
ResolveEmptyDoubleLine ==
  <<"c", ".", "r", "e", "s", "o", "l", "v", "e", "(", "\"", "\"", ")">>

\* c.resolve('abc')
ResolveAbcLine ==
  <<"c", ".", "r", "e", "s", "o", "l", "v", "e", "(", "'", "a", "b", "c", "'", ")">>

\* c.resolve ( 'user
ResolveSpacedLine ==
  <<"c", ".", "r", "e", "s", "o", "l", "v", "e", " ", "(", " ", "'", "u", "s", "e", "r">>

\* x.cradle.
CradleDotLine ==
  <<"x", ".", "c", "r", "a", "d", "l", "e", ".">>

\* constructor({a, b
ConstructorLine ==
  <<"c", "o", "n", "s", "t", "r", "u", "c", "t", "o", "r", "(", "{", "a", ",", " ", "b">>

\* const x = 5
ConstLine ==
  <<"c", "o", "n", "s", "t", " ", "x", " ", "=", " ", "5">>

\* c.resolve('x.cradle.
ResolveCradleLine ==
  <<"c", ".", "r", "e", "s", "o", "l", "v", "e", "(", "'", "x", ".", "c", "r", "a", "d",
    "l", "e", ".">>

\* constructor({a = x.cradle.
ConstructorCradleLine ==
  <<"c", "o", "n", "s", "t", "r", "u", "c", "t", "o", "r", "(", "{", "a", " ", "=", " ",
    "x", ".", "c", "r", "a", "d", "l", "e", ".">>

\* function f({a, b
FunctionLine ==
  <<"f", "u", "n", "c", "t", "i", "o", "n", " ", "f", "(", "{", "a", ",", " ", "b">>

\* const f = ({a
ArrowLine ==
  <<"c", "o", "n", "s", "t", " ", "f", " ", "=", " ", "(", "{", "a">>

\* f = function ({a}) {
AssignedFunctionLine ==
  <<"f", " ", "=", " ", "f", "u", "n", "c", "t", "i", "o", "n", " ", "(", "{", "a", "}",
    ")", " ", "{">>

\* f(c.cradle.logger, c.cradle.svc)
TwoCradlesLine ==
  <<"f", "(", "c", ".", "c", "r", "a", "d", "l", "e", ".", "l", "o", "g", "g", "e", "r",
    ",", " ", "c", ".", "c", "r", "a", "d", "l", "e", ".", "s", "v", "c", ")">>

\* c.cradle.svc
CradleSvcLine ==
  <<"c", ".", "c", "r", "a", "d", "l", "e", ".", "s", "v", "c">>

\* c.resolve('logger')
ResolveLoggerLine ==
  <<"c", ".", "r", "e", "s", "o", "l", "v", "e", "(", "'", "l", "o", "g", "g", "e", "r",
    "'", ")">>

\* constructor({ logger, db }) {
ConstructorClosedLine ==
  <<"c", "o", "n", "s", "t", "r", "u", "c", "t", "o", "r", "(", "{", " ", "l", "o", "g",
    "g", "e", "r", ",", " ", "d", "b", " ", "}", ")", " ", "{">>

\* function make({svc}) {
FunctionClosedLine ==
  <<"f", "u", "n", "c", "t", "i", "o", "n", " ", "m", "a", "k", "e", "(", "{", "s", "v",
    "c", "}", ")", " ", "{">>

\* const deps = {logger, cache}
AssignedObjectLine ==
  <<"c", "o", "n", "s", "t", " ", "d", "e", "p", "s", " ", "=", " ", "{", "l", "o", "g",
    "g", "e", "r", ",", " ", "c", "a", "c", "h", "e", "}">>

CursorLines ==
  {ResolveUseLine, ResolveEmptyLine, ResolveEmptyDoubleLine, ResolveAbcLine,
   ResolveSpacedLine, CradleDotLine, ConstructorLine, ConstLine,
   ResolveCradleLine, ConstructorCradleLine, FunctionLine, ArrowLine,
   AssignedFunctionLine, TwoCradlesLine, CradleSvcLine, ResolveLoggerLine,
   ConstructorClosedLine, FunctionClosedLine, AssignedObjectLine}

\* a document of one line, and the positions of a cursor on that line
Documents == { <<line>> : line \in CursorLines }

CursorPositions(doc) == { Position(0, character) : character \in 0..Len(lineAt(doc, 0)) }

InitCursor ==
  /\ args \in { <<doc, pos>> : doc \in Documents,
                              pos \in UNION { CursorPositions(d) : d \in Documents } }
  /\ args[2] \in CursorPositions(args[1])
  /\ ret = Pending
  /\ fs = <<>>

InitDetect == InitCursor /\ NoExtension

CallDetectAwilixContext ==
  /\ ret = Pending
  /\ ret' = Returned(detectAwilixContext(args[1], args[2]))
  /\ UNCHANGED <<args, fs, config, ext, index, diagnostics, heap, builds, events>>

SpecDetect == InitDetect /\ [][CallDetectAwilixContext]_vars


(***************************************************************************)
(* The providers called on an Index the extension has published            *)
(* (SpecCompletion).                                                       *)
(***************************************************************************)
\* the Index of the workspace, and the Index of a workspace without registrations
ProviderIndexes ==
  {EmptyIndex, indexFiles(WorkspaceDisk, EmptyIndex, <<AJs, BJs, TestJs>>)}

\* the extension after activation: `index` refers to the published Index
InitProvider ==
  /\ InitCursor
  /\ config = <<>>
  /\ ext = [pc |-> "off"]
  /\ index = 1
  /\ heap \in { 1 :> idx : idx \in ProviderIndexes }
  /\ diagnostics = nullNode
  /\ builds = <<>>
  /\ events = 0

CallProvideCompletionItems ==
  /\ ret = Pending
  /\ ret' = Returned(provideCompletionItems(heap[index], args[1], args[2]))
  /\ UNCHANGED <<args, fs, config, ext, index, diagnostics, heap, builds, events>>

SpecCompletion == InitProvider /\ [][CallProvideCompletionItems]_vars

CallProvideDefinition ==
  /\ ret = Pending
  /\ ret' = Returned([ref |-> findKeyUnderCursor(args[1], args[2]),
                      location |-> provideDefinition(heap[index], args[1], args[2])])
  /\ UNCHANGED <<args, fs, config, ext, index, diagnostics, heap, builds, events>>

SpecDefinition == InitProvider /\ [][CallProvideDefinition]_vars

(***************************************************************************)
(* indexFile called on the source texts below, as /w1/a.js, on a disk with *)
(* and without /w2/b.js (SpecIndexFile).                                   *)
(***************************************************************************)
\* const Service = require('../w2/b');
RequireService ==
  VariableDeclaration(<<
    VariableDeclarator(
      Identifier("Service", Loc(1, 6, 13)),
      CallExpression(Identifier("require", Loc(1, 16, 23)),
                     <<StringLiteral(<<DotDotSegment, <<"w2">>, <<"b">>>>, Loc(1, 24, 33))>>,
                     Loc(1, 16, 34)))>>)

\* container.register({ <key>: <value> });
RegisterText(key, computed, value) ==
  Text(Program(<<
    RequireService,
    ExpressionStatement(
      CallExpression(
        Member(Identifier("container", Loc(2, 0, 9)), "register", 2, 10, 18),
        <<ObjectExpression(<<ObjectProperty(key, value, computed)>>)>>,
        Loc(2, 0, 60)))>>))

\* the keys svc, 'svc', [name] and [`${prefix}Svc`], each with its `computed` flag
RegisterKeys ==
  { <<Identifier("svc", Loc(2, 21, 24)), FALSE>>,
    <<StringLiteral("svc", Loc(2, 21, 26)), FALSE>>,
    <<Identifier("name", Loc(2, 22, 26)), TRUE>>,
    <<[type |-> "TemplateLiteral", loc |-> Loc(2, 22, 36)], TRUE>> }

\* the values lib.asClass(Service), lib.asValue(console), lib.asValue(1), Service and
\* makeLogger()
RegisterValues ==
  { CallExpression(Member(Identifier("lib", Loc(2, 40, 43)), "asClass", 2, 44, 51),
                   <<Identifier("Service", Loc(2, 52, 59))>>, Loc(2, 40, 60)),
    CallExpression(Member(Identifier("lib", Loc(2, 40, 43)), "asValue", 2, 44, 51),
                   <<Identifier("console", Loc(2, 52, 59))>>, Loc(2, 40, 60)),
    CallExpression(Member(Identifier("lib", Loc(2, 40, 43)), "asValue", 2, 44, 51),
                   <<[type |-> "NumericLiteral", loc |-> Loc(2, 52, 53)]>>, Loc(2, 40, 54)),
    Identifier("Service", Loc(2, 40, 47)),
    CallExpression(Identifier("makeLogger", Loc(2, 40, 50)), <<>>, Loc(2, 40, 52)) }

\* the property `name` of an object pattern, written in shorthand
Shorthand(name, c1, c2) ==
  ObjectProperty(Identifier(name, Loc(2, c1, c2)), Identifier(name, Loc(2, c1, c2)), FALSE)

\* the parameter lists (), ({logger, db}), (opts), (opts, {logger, db}) and
\* ({logger, db}, {cache})
ParamLists ==
  { <<>>,
    <<ObjectPattern(<<Shorthand("logger", 20, 26), Shorthand("db", 28, 30)>>)>>,
    <<Identifier("opts", Loc(2, 20, 24))>>,
    <<Identifier("opts", Loc(2, 20, 24)),
      ObjectPattern(<<Shorthand("logger", 27, 33), Shorthand("db", 35, 37)>>)>>,
    <<ObjectPattern(<<Shorthand("logger", 20, 26), Shorthand("db", 28, 30)>>),
      ObjectPattern(<<Shorthand("cache", 34, 39)>>)>> }

FunctionKinds ==
  {"constructor", "method", "FunctionDeclaration", "FunctionExpression",
   "ArrowFunctionExpression"}

\* class Service { constructor(<params>) {} }, class Service { run(<params>) {} },
\* function make(<params>) {}, const make = function (<params>) {} and
\* const make = (<params>) => {}
FunctionText(kind, params) ==
  Text(Program(<<
    RequireService,
    IF kind \in {"constructor", "method"}
    THEN ClassDeclaration(
           Identifier("Service", Loc(2, 6, 13)),
           <<ClassMethod(kind,
                         Identifier(IF kind = "constructor" THEN "constructor" ELSE "run",
                                    Loc(2, 16, 19)),
                         params, <<>>)>>)
    ELSE IF kind = "FunctionDeclaration"
    THEN Function(kind, Identifier("make", Loc(2, 9, 13)), params, <<>>)
    ELSE VariableDeclaration(<<
           VariableDeclarator(Identifier("make", Loc(2, 6, 10)),
                              Function(kind, nullNode, params, <<>>))>>)>>))

IndexedTexts ==
  { RegisterText(k[1], k[2], v) : k \in RegisterKeys, v \in RegisterValues }
    \cup { FunctionText(kind, params) : kind \in FunctionKinds, params \in ParamLists }

InitIndexFile ==
  /\ fs \in {WorkspaceDisk, unlink(WorkspaceDisk, BJs)}
  /\ args \in { <<FileUri(AJs), text>> : text \in IndexedTexts }
  /\ ret = Pending
  /\ NoExtension

CallIndexFile ==
  /\ ret = Pending
  /\ ret' = Returned(indexFile(fs, args[1], args[2]))
  /\ UNCHANGED <<args, fs, config, ext, index, diagnostics, heap, builds, events>>

SpecIndexFile == InitIndexFile /\ [][CallIndexFile]_vars

(***************************************************************************)
(* Claims about buildIndex and diagnosticsRunner (SpecBuild).              *)
(***************************************************************************)
\* the workspace folders of a call, [] when there are none
FolderList(workspaceFolders) ==
  IF workspaceFolders = nullNode THEN <<>> ELSE workspaceFolders.items

\* the files of a folder a build enumerates and indexes: none if the enumeration fails,
\* and a file that cannot be read or parsed is not among them
IndexedFiles(disk, folder, ignorePatterns) ==
  LET found == fg(disk, folder, defaultIgnore \o ignorePatterns)
      indexed(file) ==
        /\ ~readFileSync(disk, file).threw
        /\ ~parseJs(readFileSync(disk, file).value).threw
  IN IF found.threw THEN <<>> ELSE SelectSeq(found.value, indexed)

\* the registrations of a build in build order: roots in the given order, files in
\* enumeration order, registrations in traversal order
Registrations(disk, workspaceFolders, ignorePatterns) ==
  LET folders == FolderList(workspaceFolders)
      ofFolder(folder) ==
        LET files == IndexedFiles(disk, folder, ignorePatterns)
        IN Concat([i \in 1..Len(files) |->
                     indexFile(disk, FileUri(files[i]), disk[files[i]].text).keys])
  IN Concat([f \in 1..Len(folders) |-> ofFolder(folders[f])])

\* C1: when buildIndex returns, index.keys holds exactly the keys registered in the files
\* it indexed, and the entry of each key is the one derived from the registration of that
\* key that comes last in build order; the call ends by returning whatever earlier
\* registrations there were.
C1_LastRegistrationWins ==
  ret.status = "returned" =>
    LET regs == Registrations(fs, args[1], args[2])
        keys == ret.value.keys
    IN /\ DOMAIN keys = { regs[i].key : i \in 1..Len(regs) }
       /\ \A i \in 1..Len(regs) :
            (\A j \in (i + 1)..Len(regs) : regs[j].key # regs[i].key) =>
              keys[regs[i].key] = regs[i]

\* a key registered twice in one file and once more in a file indexed later
C1_Witness ==
  /\ ret.status = "returned"
  /\ LET regs == Registrations(fs, args[1], args[2])
     IN \E i, j, k \in 1..Len(regs) :
          /\ i < j /\ j < k
          /\ regs[i].key = regs[k].key /\ regs[j].key = regs[k].key
          /\ regs[i] # regs[k] /\ regs[j] # regs[k]
          /\ regs[i].fileUri # regs[k].fileUri
          /\ ret.value.keys[regs[k].key] = regs[k]

\* the usages of an Index that are in a file and whose key is not registered
Unresolved(idx, fsPath) ==
  SelectSeq(idx.resolves,
            LAMBDA u : stripFileScheme(u.uri) = fsPath /\ u.key \notin DOMAIN idx.keys)

\* C2: after diagnosticsRunner the collection holds, for the file of every usage, one
\* error diagnostic for each usage of that file whose key is not in index.keys, at the
\* usage's range and naming the key, and nothing else: no diagnostic for a usage of a
\* registered key, none for a file without usages, none left from an earlier run.
C2_OneErrorPerUnresolvedUsage ==
  (ret.status = "returned" /\ diagnostics # nullNode) =>
    LET idx == ret.value
        entries == diagnostics.entries
    IN /\ DOMAIN entries = { stripFileScheme(idx.resolves[i].uri) : i \in 1..Len(idx.resolves) }
       /\ \A fsPath \in DOMAIN entries :
            /\ Len(entries[fsPath]) = Len(Unresolved(idx, fsPath))
            /\ \A i \in 1..Len(entries[fsPath]) :
                 /\ entries[fsPath][i].severity = "Error"
                 /\ entries[fsPath][i].range = Unresolved(idx, fsPath)[i].range
                 /\ entries[fsPath][i].message[2] = Unresolved(idx, fsPath)[i].key

\* a file with a usage of a registered key and a usage of an unregistered one
C2_Witness ==
  /\ ret.status = "returned"
  /\ diagnostics # nullNode
  /\ \E i, j \in 1..Len(ret.value.resolves) :
       /\ ret.value.resolves[i].uri = ret.value.resolves[j].uri
       /\ ret.value.resolves[i].key \in DOMAIN ret.value.keys
       /\ ret.value.resolves[j].key \notin DOMAIN ret.value.keys
       /\ Len(diagnostics.entries[stripFileScheme(ret.value.resolves[j].uri)]) = 1


\* the diagnostics derived from an Index: for the file of every usage, one diagnostic for
\* each of the file's usages of an unregistered key
Derived(idx) ==
  [fsPath \in { stripFileScheme(idx.resolves[i].uri) : i \in 1..Len(idx.resolves) } |->
     [i \in 1..Len(Unresolved(idx, fsPath)) |-> Diagnostic(Unresolved(idx, fsPath)[i])]]

\* C16: after diagnosticsRunner has run on an Index, once or twice, the collection holds
\* exactly the diagnostics derived from that Index, whatever it held before, and the Index
\* is as buildIndex returned it.
C16_ReplacesAndIsIdempotent ==
  /\ [](diagnostics # nullNode => diagnostics.entries = Derived(ret.value))
  /\ [][ret.status = "returned" => ret' = ret]_vars

\* diagnosticsRunner has run twice on an Index with a usage of an unregistered key
C16_Witness ==
  /\ events = MaxRuns
  /\ diagnostics # nullNode
  /\ \E fsPath \in DOMAIN diagnostics.entries : Len(diagnostics.entries[fsPath]) >= 1


\* buildIndex run from idx to its end on a disk that does not change meanwhile
RECURSIVE FullBuild(_, _, _, _)
FullBuild(disk, idx, folders, ignorePatterns) ==
  IF Len(folders) = 0 THEN idx
  ELSE FullBuild(disk,
                 indexFolder(disk, idx,
                             fg(disk, Head(folders), defaultIgnore \o ignorePatterns)),
                 Tail(folders), ignorePatterns)

\* the disk with an empty source file in the place of every file that cannot be read or
\* parsed
WithoutFailingFiles(disk) ==
  [p \in DOMAIN disk |->
     IF disk[p].type = "file" /\ (disk[p].text = Unreadable \/ parseJs(disk[p].text).threw)
     THEN File(Text(Program(<<>>)))
     ELSE disk[p]]

\* the folders whose enumeration does not fail
WithoutFailingRoots(disk, folders) == SelectSeq(folders, LAMBDA f : ~fg(disk, f, <<>>).threw)

\* C7: buildIndex returns an Index whatever fails on the way: the Index is the one a
\* build returns when every file that cannot be read or parsed is an empty source file and
\* every root whose enumeration fails is left out of the list, so the failing files and
\* roots contribute nothing and the others what they contribute without them; with an
\* empty or absent list of roots the Index is empty.
C7_NoErrorAbortsBuild ==
  ret.status = "returned" =>
    /\ Len(FolderList(args[1])) = 0 => ret.value = EmptyIndex
    /\ ret.value = FullBuild(WithoutFailingFiles(fs), EmptyIndex,
                             WithoutFailingRoots(fs, FolderList(args[1])), args[2])

\* a root whose enumeration fails, then a root with a file that cannot be read, a file
\* that cannot be parsed and a file with a registration, which is in the Index returned
C7_Witness ==
  /\ ret.status = "returned"
  /\ args[1] = Folders(<<W2, W1>>)
  /\ W2 \in DOMAIN fs /\ fs[W2] = RejectingDir
  /\ AJs \in DOMAIN fs /\ fs[AJs] = File(Unreadable)
  /\ BJs \in DOMAIN fs /\ fs[BJs] = File(SyntaxError)
  /\ TestJs \in DOMAIN fs /\ fs[TestJs] = File(DuplicateText)
  /\ DOMAIN ret.value.keys = {"svc"}


(***************************************************************************)
(* Claims about the running extension (Spec).                              *)
(***************************************************************************)
\* the rebuilds in flight: the buildIndex invocations started by the two handlers
Rebuilds == { r \in DOMAIN builds : builds[r].caller \in {"onUpdate", "onConfig"} }

\* C3: the published Index is never one a build is still writing to; it is replaced in
\* one step, by the Index of a build that has just indexed its last folder, and until
\* then it stays in place and is not changed.
C3_PublishedIndexIsComplete ==
  /\ [](index # NullRef => (index \in DOMAIN heap /\ index \notin DOMAIN builds))
  /\ [][(index # NullRef /\ index' = index) => heap'[index] = heap[index]]_vars
  /\ [][index' # index =>
          /\ index' \in DOMAIN builds
          /\ builds[index'].pc = "found"
          /\ builds[index'].folder = Len(builds[index'].workspaceFolders)
          /\ index' \notin DOMAIN builds'
          /\ heap'[index'] = indexFolder(fs, heap[index'], builds[index'].found)]_vars

\* a rebuild has indexed its first folder while the Index published before is in place
C3_Witness ==
  /\ index # NullRef
  /\ \E r \in Rebuilds :
       /\ builds[r].folder = 2
       /\ heap[r].resolves # <<>>
       /\ heap[r] # heap[index]

\* C4: at most one rebuild is in flight at any time.
C4_RebuildsSerialized == Cardinality(Rebuilds) <= 1

\* C5: when the last of the rebuilds in flight finishes, the published Index is the one
\* built from the file system as the most recent trigger left it (under the ignore
\* patterns of one of the triggers).
C5_LastTriggerWins ==
  [][(ext.pc = "active" /\ builds # <<>> /\ builds' = <<>>) =>
       \E ignorePatterns \in IndexIgnoreValues :
         heap'[index'] = FullBuild(fs', EmptyIndex, ext.workspaceFolders.items,
                                   ignorePatterns)]_vars

\* C6: whenever an Index is published, the diagnostic collection holds what
\* diagnosticsRunner computes for that Index.
C6_DiagnosticsOfPublishedIndex ==
  index # NullRef =>
    diagnostics = DiagnosticCollection(diagnosticsRunner(heap[index], <<>>))

\* a rebuild has published its Index and diagnostics while another is still in flight
C6_Witness ==
  /\ index # NullRef
  /\ events = MaxEvents
  /\ Cardinality(Rebuilds) = 1
  /\ \E fsPath \in DOMAIN diagnostics.entries : Len(diagnostics.entries[fsPath]) >= 2


\* C19: every rebuild enumerates files with the ignore patterns of the configuration in
\* force when it starts (added to the baseline set), also a rebuild that a file event
\* starts after a configuration change.
C19_RebuildUsesCurrentIgnores ==
  [][\A r \in DOMAIN builds' \ DOMAIN builds :
       builds'[r].ignore = defaultIgnore \o config']_vars

\* C20: when activation finishes with no rebuild in flight, the published Index is the
\* Index of the file system as it is then, also if a source file was created, changed or
\* deleted while the initial build was running.
C20_EventsDuringActivationReflected ==
  [][(ext.pc = "activating" /\ ext'.pc = "active" /\ builds' = <<>>) =>
       \E ignorePatterns \in IndexIgnoreValues :
         heap'[index'] = FullBuild(fs', EmptyIndex, ext.workspaceFolders.items,
                                   ignorePatterns)]_vars


(***************************************************************************)
(* Claims about resolveModulePath (SpecResolve).                           *)
(***************************************************************************)
ImportFoo == <<<<DotSegment, SegFoo>>, <<SegA, SegBJs>>>>

\* C8: resolveModulePath('./foo', '/a/b.js') returns /a/foo.js whenever that file exists,
\* whatever else is on disk (also a directory /a/foo with an index.js), otherwise
\* /a/foo/index.js if that exists, otherwise null.  Stated on the disks where /a/foo is not
\* itself a regular file, the case in which the literal path is tried first.
C8_ExtensionBeforeIndex ==
  (ret.status = "returned" /\ args = ImportFoo /\ ~isFile(fs, <<SegA, SegFoo>>)) =>
    ret.value = IF existsSync(fs, <<SegA, SegFooJs>>) THEN PathString(<<SegA, SegFooJs>>)
                ELSE IF existsSync(fs, <<SegA, SegFoo, IndexJs>>)
                THEN PathString(<<SegA, SegFoo, IndexJs>>)
                ELSE nullNode

(***************************************************************************)
(* Claims about analyzeRegistration (SpecAnalyze).                         *)
(***************************************************************************)
\* a call whose callee is a member access with an identifier property named asClass,
\* asFunction or asValue
IsSelectorCall(n) ==
  /\ n.type = "CallExpression"
  /\ n.callee.type = "MemberExpression"
  /\ n.callee.property.type = "Identifier"
  /\ n.callee.property.name \in {"asClass", "asFunction", "asValue"}

\* the calls of a chain: the value, then the object each member call is made on
RECURSIVE ChainCalls(_)
ChainCalls(n) ==
  IF n.type # "CallExpression" THEN <<>>
  ELSE IF n.callee.type = "MemberExpression" THEN <<n>> \o ChainCalls(n.callee.object)
  ELSE <<n>>

NoSelectorInChain(n) ==
  /\ n.type = "CallExpression"
  /\ \A i \in 1..Len(ChainCalls(n)) : ~IsSelectorCall(ChainCalls(n)[i])

MakeLoggerSingleton ==
  CallExpression(
    MemberExpression(CallExpression(Identifier("makeLogger", NoLoc), <<>>, NoLoc),
                     Identifier("singleton", NoLoc), FALSE),
    <<>>, NoLoc)

\* C9 (as claimed): for a call chain in which no binding-kind selector is found, such as
\* makeLogger() or factory().singleton(), analyzeRegistration returns kind 'value' with
\* the original expression as the bound symbol.
C9_ChainWithoutSelectorBindsExpression ==
  (ret.status = "returned" /\ NoSelectorInChain(args[1])) =>
    (ret.value.kind = "value" /\ ret.value.symbolNode = args[1])

\* C9 (amended): for a call chain in which no binding-kind selector is found,
\* analyzeRegistration returns kind 'value' and no bound symbol (symbolNode is null); the
\* original expression is the bound symbol only when the value is not a call expression.
C9_ChainWithoutSelectorHasNoSymbol ==
  /\ (ret.status = "returned" /\ NoSelectorInChain(args[1])) =>
       (ret.value.kind = "value" /\ ret.value.symbolNode = nullNode)
  /\ (ret.status = "returned" /\ args[1].type # "CallExpression") =>
       (ret.value.kind = "value" /\ ret.value.symbolNode = args[1])

C9_Witness ==
  /\ ret.status = "returned"
  /\ args[1] = MakeLoggerSingleton
  /\ ret.value = [kind |-> "value", lifetime |-> "singleton", symbolNode |-> nullNode]

\* <obj>.singleton(), <obj>.scoped() or <obj>.transient(), with any arguments
IsLifetimeCall(n) ==
  /\ n.type = "CallExpression"
  /\ n.callee.type = "MemberExpression"
  /\ ~n.callee.computed
  /\ n.callee.property.type = "Identifier"
  /\ n.callee.property.name \in {"singleton", "scoped", "transient"}

\* what is left of a value once its trailing lifetime calls are taken off
RECURSIVE KindCallOf(_)
KindCallOf(n) == IF IsLifetimeCall(n) THEN KindCallOf(n.callee.object) ELSE n

\* the trailing lifetime calls of a value, outermost first
RECURSIVE Modifiers(_)
Modifiers(n) ==
  IF IsLifetimeCall(n) THEN <<n.callee.property.name>> \o Modifiers(n.callee.object)
  ELSE <<>>

\* <obj>.asClass(S), <obj>.asFunction(S) or <obj>.asValue(S) followed by lifetime calls
IsKindChain(n) ==
  /\ IsSelectorCall(KindCallOf(n))
  /\ ~KindCallOf(n).callee.computed
  /\ Len(KindCallOf(n).arguments) > 0

KindOfSelector == [asClass |-> "class", asFunction |-> "function", asValue |-> "value"]

AsClassFooSingleton ==
  CallExpression(
    MemberExpression(
      CallExpression(MemberExpression(Identifier("lib", NoLoc), Identifier("asClass", NoLoc),
                                      FALSE),
                     <<Identifier("Foo", NoLoc)>>, NoLoc),
      Identifier("singleton", NoLoc), FALSE),
    <<>>, NoLoc)

\* C10: for <obj>.asClass(S), <obj>.asFunction(S) or <obj>.asValue(S) followed by any
\* sequence of singleton/scoped/transient calls, analyzeRegistration returns the kind
\* class/function/value, the bound symbol S (the selector call's first argument, never the
\* chain), lifetime null when no modifier is chained and the modifier's name when exactly
\* one is chained.
C10_KindChain ==
  (ret.status = "returned" /\ IsKindChain(args[1])) =>
    /\ ret.value.kind = KindOfSelector[KindCallOf(args[1]).callee.property.name]
    /\ ret.value.symbolNode = KindCallOf(args[1]).arguments[1]
    /\ Len(Modifiers(args[1])) = 0 => ret.value.lifetime = null
    /\ Len(Modifiers(args[1])) = 1 => ret.value.lifetime = Modifiers(args[1])[1]

C10_Witness ==
  /\ ret.status = "returned"
  /\ args[1] = AsClassFooSingleton
  /\ ret.value = [kind |-> "class", lifetime |-> "singleton",
                  symbolNode |-> Identifier("Foo", NoLoc)]

(***************************************************************************)
(* Claims about detectAwilixContext (SpecDetect).                          *)
(***************************************************************************)
\* the text of the line before and after the cursor of a call
TextBefore == substring(lineAt(args[1], 0), 0, args[2].character)
TextAfter == substringFrom(lineAt(args[1], 0), args[2].character)

\* the cursor is inside a string that opens the argument list of a .resolve( call: the
\* opening quote is before the cursor and the same quote does not come between them
CursorInResolveString ==
  \E i \in 1..Len(TextBefore) :
    LET q == resolveQuoteAt(TextBefore, i)
    IN q # 0 /\ \A m \in (q + 1)..Len(TextBefore) : TextBefore[m] # TextBefore[q]

\* C11: whenever the cursor is inside the string-literal argument of a .resolve( call,
\* detectAwilixContext returns 'inResolveString', also when the closing quote follows the
\* cursor immediately.
C11_InsideResolveString ==
  (ret.status = "returned" /\ CursorInResolveString) => ret.value = "inResolveString"

\* the three checks on the text around the cursor of a call
ResolveStringCheck ==
  /\ resolveMatch(TextBefore) # nullNode
  /\ indexOf(TextAfter, resolveMatch(TextBefore).quote) # 0

CradleDotCheck == endsWithCradleDot(TextBefore)

DestructuringCheck == constructorOpen(TextBefore) \/ functionOpen(TextBefore)

\* a call with the cursor at the end of the line
AtEndOf(line) == args = <<<<line>>, Position(0, Len(line))>>

\* C13: detectAwilixContext returns the context of the first check that matches, in the
\* order resolve-string, cradle-dot, destructuring, and no context exactly when none
\* matches; at the end of the lines `container.resolve('use`, `x.cradle.`,
\* `constructor({a, b` and `const x = 5` it returns resolve-string, cradle-dot,
\* destructuring and no context.
C13_FirstMatchingCheckWins ==
  ret.status = "returned" =>
    /\ ResolveStringCheck => ret.value = "inResolveString"
    /\ (~ResolveStringCheck /\ CradleDotCheck) => ret.value = "afterCradleDot"
    /\ (~ResolveStringCheck /\ ~CradleDotCheck /\ DestructuringCheck)
         => ret.value = "inConstructorDestructuring"
    /\ (ret.value = null) <=> (~ResolveStringCheck /\ ~CradleDotCheck /\ ~DestructuringCheck)
    /\ AtEndOf(ResolveUseLine) => ret.value = "inResolveString"
    /\ AtEndOf(CradleDotLine) => ret.value = "afterCradleDot"
    /\ AtEndOf(ConstructorLine) => ret.value = "inConstructorDestructuring"
    /\ AtEndOf(ConstLine) => ret.value = null

\* a call where the resolve-string check and the cradle-dot check both match
C13_Witness ==
  /\ ret.status = "returned"
  /\ ResolveStringCheck
  /\ CradleDotCheck
  /\ ret.value = "inResolveString"

(***************************************************************************)
(* Claims about provideCompletionItems (SpecCompletion).                   *)
(***************************************************************************)
\* the 0-based column right after the opening quote of the resolve string the cursor is in
AfterOpeningQuote ==
  CHOOSE q \in 1..Len(TextBefore) :
    /\ \E i \in 1..q : resolveQuoteAt(TextBefore, i) = q
    /\ \A m \in (q + 1)..Len(TextBefore) : TextBefore[m] # TextBefore[q]

\* the 0-based column where the resolve string ends: its closing quote, or the end of the
\* line when it is unterminated
EndOfResolveString ==
  LET line == lineAt(args[1], 0)
      closing == { m \in (args[2].character + 1)..Len(line) : line[m] = line[AfterOpeningQuote] }
  IN IF closing = {} THEN Len(line)
     ELSE (CHOOSE m \in closing : \A n \in closing : m <= n) - 1

\* C12: in the resolve-string context every completion item's replacement span starts right
\* after the opening quote and ends at the closing quote, or at the end of the line when the
\* string is unterminated.
C12_SpanCoversPartialKey ==
  (/\ ret.status = "returned"
   /\ CursorInResolveString
   /\ ret.value # nullNode)
  => \A item \in ret.value.items :
       item.range = Range(0, AfterOpeningQuote, 0, EndOfResolveString)

(***************************************************************************)
(* Claims about indexFile (SpecIndexFile).                                 *)
(***************************************************************************)
\* the nodes of the program under call, in source order
NodesOfText == traverse(parseJs(args[2]).value)

\* the class constructors and the functions of the program: declarations, function
\* expressions and arrow functions
IsInjectable(node) ==
  \/ node.type \in {"FunctionDeclaration", "FunctionExpression", "ArrowFunctionExpression"}
  \/ node.type = "ClassMethod" /\ node.kind = "constructor"

\* the property names a parameter list destructures in its first parameter
DestructuredNames(params) ==
  IF Len(params) > 0 /\ params[1].type = "ObjectPattern"
  THEN [i \in 1..Len(params[1].properties) |-> params[1].properties[i].key.name]
  ELSE <<>>

InjectedNames ==
  LET functions == SelectSeq(NodesOfText, IsInjectable)
  IN Concat([i \in 1..Len(functions) |-> DestructuredNames(functions[i].params)])

IsConstructorInjection(usage) == usage.type = "constructorInjection"

\* C14: for the first parameter of a class constructor and of every function (declaration,
\* function expression, arrow function) that is an object pattern, indexFile emits exactly
\* one constructorInjection usage per destructured property name, and none for other
\* parameters.
C14_OneUsagePerDestructuredName ==
  ret.status = "returned" =>
    LET usages == SelectSeq(ret.value.resolves, IsConstructorInjection)
    IN [i \in 1..Len(usages) |-> usages[i].key] = InjectedNames

\* the properties of the object literals passed to .register( in the program under call
IsRegisterCall(node) ==
  /\ node.type = "CallExpression"
  /\ isMemberCall(node.callee, "register")
  /\ Len(node.arguments) > 0
  /\ node.arguments[1].type = "ObjectExpression"

RegisterProperties ==
  LET calls == SelectSeq(NodesOfText, IsRegisterCall)
  IN Concat([i \in 1..Len(calls) |-> calls[i].arguments[1].properties])

\* the names of the keys written as a plain identifier or as a string literal
StaticKeyNames ==
  { getPropName(RegisterProperties[i].key) :
      i \in { j \in 1..Len(RegisterProperties) :
                /\ ~RegisterProperties[j].computed
                /\ RegisterProperties[j].key.type \in {"Identifier", "StringLiteral"} } }

\* C15: a register property whose key is computed is skipped: every KeyDefinition's name
\* is the name of a plain identifier key or of a string-literal key.
C15_ComputedKeySkipped ==
  ret.status = "returned" =>
    \A i \in 1..Len(ret.value.keys) : ret.value.keys[i].key \in StaticKeyNames

\* C17: a KeyDefinition whose origin is another file than the one indexed (its bound symbol
\* is an imported identifier that resolves to that file) has no range: an originFile is
\* never paired with a span of a different file.
C17_OriginElsewhereHasNoRange ==
  ret.status = "returned" =>
    \A i \in 1..Len(ret.value.keys) :
      ret.value.keys[i].fileUri # args[1] => ret.value.keys[i].range = nullNode

(***************************************************************************)
(* Claims about findKeyUnderCursor and provideDefinition (SpecDefinition). *)
(***************************************************************************)
\* the cursor is on (or at the end of) the property name of a `.cradle.<name>` access of
\* the line: the columns of the name, as a set of at most one pair
CradleNameAtCursor ==
  LET line == lineAt(args[1], 0)
      c == args[2].character
  IN { <<a, b>> \in (1..Len(line)) \X (1..Len(line)) :
         /\ a > Len(DotCradleDot)
         /\ litAt(line, a - Len(DotCradleDot), DotCradleDot)
         /\ b = skip(line, a, WordChars) - 1
         /\ b >= a
         /\ a - 1 <= c
         /\ c <= b }

\* C18: with the cursor on the property name of any `.cradle.<name>` access of the line,
\* first or later, findKeyUnderCursor returns that name, and provideDefinition returns the
\* location of the name's KeyDefinition when the Index has it and nothing when it has not.
C18_DefinitionFromEveryCradleAccess ==
  ret.status = "returned" =>
    \A ab \in CradleNameAtCursor :
      LET name == join(SubSeq(lineAt(args[1], 0), ab[1], ab[2]))
          keys == heap[index].keys
      IN /\ ret.value.ref # nullNode
         /\ ret.value.ref.key = name
         /\ name \notin DOMAIN keys => ret.value.location = nullNode
         /\ name \in DOMAIN keys =>
              /\ ret.value.location # nullNode
              /\ ret.value.location.uri = keys[name].fileUri
              /\ ret.value.location.range.start = keys[name].range.start


====
